---- MODULE Spec2Model ----
(***************************************************************************)
(* wopr-plugin-discord: the streaming output reconciler of                 *)
(* src/src/index.ts (plugin versions 2.2.0, 2.2.1, 2.2.3 and 2.5.0, which  *)
(* the file holds one after the other) as one state machine.               *)
(*                                                                         *)
(* Text.  A JavaScript string is kept run-length encoded: a sequence of    *)
(* runs [c |-> character, n |-> count], no two neighbouring runs with the  *)
(* same character and no empty run.  <<[c |-> "a", n |-> 2000]>> is the    *)
(* string of 2000 letters a.  Positions are 0-based as in JavaScript.      *)
(* Every string operation below works on the characters the encoding       *)
(* stands for, so the code's numbers (2000, 800, 500, 100) are used as     *)
(* they are.                                                               *)
(*                                                                         *)
(* Scheduling.  JavaScript runs one callback at a time; an async function  *)
(* runs until its next await on platform I/O.  Each action below is one    *)
(* such run: the arrival of an inbound message, the delivery of a          *)
(* fragment, the firing of a timer, the settling of inject, or the         *)
(* completion (success or failure) of one platform request together with   *)
(* the continuation that was waiting for it.                               *)
(***************************************************************************)
EXTENDS Integers, Sequences, FiniteSets, Bags, TLC

\* ------------------------------------------------------------------ text

Min(a, b) == IF a <= b THEN a ELSE b

Max(a, b) == IF a >= b THEN a ELSE b

SetMax(S) == CHOOSE x \in S : \A y \in S : y <= x

\* The characters String.prototype.trim removes that the model's texts use.
WS == {" ", "\n"}

Run(ch, k) == [c |-> ch, n |-> k]

EmptyStr == << >>

\* A string of k copies of ch.
Rep(ch, k) == IF k <= 0 THEN EmptyStr ELSE <<Run(ch, k)>>

RECURSIVE StrLen(_)
\* s.length
StrLen(s) == IF s = << >> THEN 0 ELSE Head(s).n + StrLen(Tail(s))

\* a + b
Concat(a, b) ==
  IF a = << >> THEN b
  ELSE IF b = << >> THEN a
  ELSE IF a[Len(a)].c = b[1].c
       THEN SubSeq(a, 1, Len(a) - 1)
            \o <<Run(b[1].c, a[Len(a)].n + b[1].n)>>
            \o Tail(b)
       ELSE a \o b

RECURSIVE Take(_, _)
\* s.slice(0, k)
Take(s, k) ==
  IF k <= 0 \/ s = << >> THEN << >>
  ELSE IF Head(s).n <= k THEN <<Head(s)>> \o Take(Tail(s), k - Head(s).n)
  ELSE <<Run(Head(s).c, k)>>

RECURSIVE Drop(_, _)
\* s.slice(k)
Drop(s, k) ==
  IF k <= 0 \/ s = << >> THEN s
  ELSE IF Head(s).n <= k THEN Drop(Tail(s), k - Head(s).n)
  ELSE <<Run(Head(s).c, Head(s).n - k)>> \o Tail(s)

RECURSIVE TrimStart(_)
TrimStart(s) ==
  IF s = << >> THEN s
  ELSE IF Head(s).c \in WS THEN TrimStart(Tail(s)) ELSE s

RECURSIVE TrimEnd(_)
TrimEnd(s) ==
  IF s = << >> THEN s
  ELSE IF s[Len(s)].c \in WS THEN TrimEnd(SubSeq(s, 1, Len(s) - 1)) ELSE s

\* s.trim()
Trim(s) == TrimEnd(TrimStart(s))

\* The characters that occur in s.
Chars(s) == {s[k].c : k \in 1..Len(s)}

\* The 0-based position at which run k of s starts.
RunStart(s, k) == StrLen(SubSeq(s, 1, k - 1))

\* s.lastIndexOf(ch, from) for a single character ch: the last position <= from
\* that holds ch, or -1 (a negative from counts as 0).
LastIndexOfChar(s, ch, from) ==
  LET f == Max(from, 0)
      hits == {Min(f, RunStart(s, k) + s[k].n - 1) :
                 k \in {j \in 1..Len(s) : s[j].c = ch /\ RunStart(s, j) <= f}}
  IN  IF hits = {} THEN -1 ELSE SetMax(hits)

\* s.lastIndexOf(ch ch, from): the last position p <= from with ch at p and p+1.
LastIndexOfPair(s, ch, from) ==
  LET f == Max(from, 0)
      hits == {Min(f, RunStart(s, k) + s[k].n - 2) :
                 k \in {j \in 1..Len(s) :
                          s[j].c = ch /\ s[j].n >= 2 /\ RunStart(s, j) <= f}}
  IN  IF hits = {} THEN -1 ELSE SetMax(hits)

\* s.includes(ch ch)
IncludesRep(s, ch, k) == \E i \in 1..Len(s) : s[i].c = ch /\ s[i].n >= k

\* s.includes(a b) for two different characters a, b
IncludesSeq2(s, a, b) ==
  \E k \in 1..(Len(s) - 1) : s[k].c = a /\ s[k + 1].c = b

\* s.startsWith(ch ... ch), k copies of ch
StartsWithRep(s, ch, k) == s # << >> /\ s[1].c = ch /\ s[1].n >= k

\* ------------------------------------------------------------- constants

DISCORD_LIMIT == 2000

\* v2.2.1: flush at once when the buffer holds this many characters.
COALESCE_CHARS == 500

\* v2.2.3: flush at once when this many characters are not displayed yet.
EDIT_COALESCE_CHARS == 800

\* v2.2.3: a natural break flushes at once above this many undisplayed characters.
NATURAL_BREAK_FLOOR == 100

\* v2.5.0: flush at once when this many characters are not sent yet.
EDIT_THRESHOLD == 800

\* v2.2.0: thinking updates start above this buffer length.
THINKING_UPDATE_CHARS == 500

\* v2.2.0: an edited thinking update is cut to this many characters.
THINKING_EDIT_SLICE == 1990

\* looksLikeResponseStart: formatted text longer than this starts the response.
FORMATTED_MIN_221 == 100

FORMATTED_MIN_220 == 200

\* The thinking prefix: the thought-balloon emoji (two UTF-16 units, character
\* "balloon" here) and a space.
THINK_PREFIX == <<Run("balloon", 2), Run(" ", 1)>>

\* ---------------------------------------------------------------- chunker

\* A faulty variant of SplitBreakPoint: with no break in the second half it cuts
\* one character past maxLen.
SplitBreakPointOver(remaining, maxLen) ==
  LET b1 == LastIndexOfPair(remaining, "\n", maxLen)
      b2 == IF 2 * b1 < maxLen THEN LastIndexOfChar(remaining, "\n", maxLen) ELSE b1
      b3 == IF 2 * b2 < maxLen THEN LastIndexOfChar(remaining, " ", maxLen) ELSE b2
  IN  IF 2 * b3 < maxLen THEN maxLen + 1 ELSE b3

\* The break point splitMessage picks in `remaining` (longer than maxLen).
\* breakPoint < maxLen * 0.5 is 2 * breakPoint < maxLen.
SplitBreakPoint(remaining, maxLen) ==
  LET b1 == LastIndexOfPair(remaining, "\n", maxLen)
      b2 == IF 2 * b1 < maxLen THEN LastIndexOfChar(remaining, "\n", maxLen) ELSE b1
      b3 == IF 2 * b2 < maxLen THEN LastIndexOfChar(remaining, " ", maxLen) ELSE b2
  IN  IF 2 * b3 < maxLen THEN maxLen ELSE b3

RECURSIVE SplitLoop(_, _, _)
\* The while loop of splitMessage.
SplitLoop(remaining, maxLen, chunks) ==
  IF StrLen(remaining) = 0 THEN chunks
  ELSE IF StrLen(remaining) <= maxLen THEN Append(chunks, remaining)
  ELSE CHOOSE result \in
         {SplitLoop(Trim(Drop(remaining, bp)), maxLen, Append(chunks, Take(remaining, bp))) :
            bp \in {SplitBreakPoint(remaining, maxLen)}} : TRUE

\* splitMessage(text, maxLen) of versions 2.2.1 and 2.2.3.
splitMessage(text, maxLen) ==
  CHOOSE result \in
    {IF StrLen(s) <= maxLen THEN <<s>> ELSE SplitLoop(s, maxLen, << >>) : s \in {text}} : TRUE

\* The break point chunkMessage (v2.2.0) picks.
ChunkBreakPoint(remaining, maxLength) ==
  LET b1 == LastIndexOfChar(remaining, "\n", maxLength)
      b2 == IF b1 = -1 \/ 2 * b1 < maxLength
            THEN LastIndexOfChar(remaining, " ", maxLength) ELSE b1
  IN  IF b2 = -1 \/ 2 * b2 < maxLength THEN maxLength ELSE b2

RECURSIVE ChunkLoop(_, _, _)
ChunkLoop(remaining, maxLength, chunks) ==
  IF StrLen(remaining) = 0 THEN chunks
  ELSE IF StrLen(remaining) <= maxLength THEN Append(chunks, remaining)
  ELSE CHOOSE result \in
         {ChunkLoop(Trim(Drop(remaining, bp)), maxLength, Append(chunks, Take(remaining, bp))) :
            bp \in {ChunkBreakPoint(remaining, maxLength)}} : TRUE

\* chunkMessage(text, maxLength) of version 2.2.0.
chunkMessage(text, maxLength) ==
  CHOOSE result \in
    {IF StrLen(s) <= maxLength THEN <<s>> ELSE ChunkLoop(s, maxLength, << >>) : s \in {text}} : TRUE

\* ----------------------------------------------------------------- bounds

\* Inbound messages that address the bot.
MaxMsgs == 2

\* Fragments the inject calls of a run emit in all.
MaxFrags == 2

\* Fragments longer than one message (shape "big") among them.
MaxBig == 1

\* Platform requests (reply, send, edit, removal of a reaction) that fail.
MaxFails == 1

\* Channels, each with its session key discord-<channel id>.
MaxKeys == 2

\* Length of the texts and largest maxLen the chunker is called with on its own.
MaxSplitText == 5
MaxSplitLen == 3

\* ------------------------------------------------------------------ state

Versions == {"v220", "v221", "v223", "v250"}

Msgs == 1..MaxMsgs

Keys == 1..MaxKeys

\* The runs in which every inbound message is on the same channel.
OneKey == {1}

VARIABLES
  version,  \* which of the four versions of src/src/index.ts runs
  streams,  \* the registry `streams`: session key -> StreamState, 0 for none;
            \* the StreamState created for inbound message m is number m
  st,       \* the StreamState objects (they live on in closures once deleted)
  hm,       \* the handleMessage invocation of each inbound message
  tasks,    \* bag of async invocations suspended in an await on a platform request
  msgs,     \* per StreamState: the outbound messages its flushes created on the
            \* platform, in creation order; a handle is a position in this list
  shown,    \* per StreamState: the characters a completed reply/send/edit of one
            \* of its flushes has displayed
  fails,    \* platform requests that have failed so far
  nfrag,    \* fragments delivered so far
  nbig,     \* fragments of shape "big" among them
  split,    \* a call of the chunker run on its own, one loop iteration a step
  config,   \* the persisted configuration ctx.getConfig() returns (src/index.js):
            \* its pairingRequests, as entries in insertion order
  pairing,  \* the calls of createPairingRequest so far: how many, how many codes
            \* were generated and how many times the configuration was saved, the
            \* last caller and return value, the code last returned to each user
  gate,     \* the runs of handleMessage of src/index.js so far: how many, the
            \* author and channel of the last one, the session it resolved, whether
            \* it called ctx.inject, how many times the configuration was saved,
            \* and the sessions whose context file exists
  relay     \* a run of handleMessage of src/index.js from ctx.inject on: where it
            \* is, the length of responseText, whether replyMessage is set, the
            \* chunks received and the lengths of the messages sent, in order

vars == <<version, streams, st, hm, tasks, msgs, shown, fails, nfrag, nbig, split,
          config, pairing, gate, relay>>

\* No call of the chunker is under way.
IdleSplit ==
  [pc |-> "idle", fn |-> "", text |-> EmptyStr, maxLen |-> 0,
   remaining |-> EmptyStr, chunks |-> << >>]

\* The users that address the bot and the codes generatePairingCode can return.
MaxUsers == 2

MaxCodes == 2

\* Calls of createPairingRequest in a run.
MaxTriggers == 4

Users == 1..MaxUsers

Codes == 1..MaxCodes

\* The channels the bot is addressed on.
MaxChannels == 2

\* Runs of handleMessage of src/index.js in a run.
MaxHandled == 2

Channels == 1..MaxChannels

\* Session names: the one the owner maps channels to, and `discord-${channelId}`.
Named == <<"mybot", 0>>

AutoName(channelId) == <<"discord", channelId>>

NoSession == <<"null", 0>>

Sessions == {Named} \cup {AutoName(c) : c \in Channels}

\* The configuration before any pairing request: pairingRequests and mappings
\* are {} (the defaults of the config schema), no user has a grant; autoCreate
\* and defaultAccess are what the owner has set.
NoRequests ==
  [pairingRequests |-> << >>,
   mappings |-> [c \in Channels |-> NoSession],
   users |-> [u \in Users |-> [sessions |-> {}, blocked |-> FALSE]],
   autoCreate |-> TRUE,
   defaultAccess |-> "all"]

\* handleMessage of src/index.js has not run.
IdleGate ==
  [handled |-> 0, author |-> 0, channel |-> 0, session |-> NoSession,
   injected |-> FALSE, saves |-> 0, files |-> {}]

\* handleMessage of src/index.js has not reached ctx.inject.
IdleRelay == [pc |-> "idle", responseText |-> 0, replyMessage |-> FALSE, chunks |-> 0,
              sent |-> << >>]

\* createPairingRequest has not been called.
IdlePairing ==
  [calls |-> 0, minted |-> 0, saves |-> 0, caller |-> 0,
   ret |-> [code |-> 0, existing |-> FALSE], issued |-> [u \in Users |-> 0]]

\* The letter that the i-th fragment of a run consists of; every fragment has its
\* own, so its text can be followed through buffers and messages.
Alphabet ==
  <<"a", "b", "c", "d", "e", "f", "g", "h", "i", "j", "k", "l", "m",
    "n", "o", "p", "q", "r", "s", "t", "u", "v", "w", "x", "y", "z">>

LetterOf(i) == Alphabet[((i - 1) % 26) + 1]

\* A text of k characters with a natural break: letters, ". ", one letter.
Sentence(ch, k) == <<Run(ch, k - 3), Run(".", 1), Run(" ", 1), Run(ch, 1)>>

\* The fragments the assistant host emits: one letter; a markdown header "#x" (a
\* response start); EDIT_THRESHOLD letters (enough for a flush at once in every
\* version); DISCORD_LIMIT + 1 letters (one more than a message holds); a
\* sentence of NATURAL_BREAK_FLOOR characters and one of a character more.
FragText(i, shape) ==
  CASE shape = "small" -> Rep(LetterOf(i), 1)
    [] shape = "head"  -> <<Run("#", 1), Run(LetterOf(i), 1)>>
    [] shape = "mid"   -> Rep(LetterOf(i), EDIT_THRESHOLD)
    [] shape = "big"   -> Rep(LetterOf(i), DISCORD_LIMIT + 1)
    [] shape = "stop"  -> Sentence(LetterOf(i), NATURAL_BREAK_FLOOR)
    [] shape = "para"  -> Sentence(LetterOf(i), NATURAL_BREAK_FLOOR + 1)

\* Version 2.5.0 has no modes: a header is one more small fragment there.
FragShapes ==
  IF version = "v250" THEN {"small", "mid", "big"} ELSE {"small", "head", "mid", "big"}

\* interface StreamState, the fields of the four versions side by side:
\*   thinkingMsg, responseMsg (2.2.0, 2.2.1), message (2.2.3, 2.5.0): a handle
\*     (index into msgs) or 0 for null;
\*   buffer (2.2.1, 2.2.3, 2.5.0); thinkingBuf, responseBuf (2.2.0);
\*   mode (2.2.1, 2.2.3) and inResponse (2.2.0, mode = "response");
\*   sentLength (2.5.0), displayedLength (2.2.3);
\*   timer: timeout (2.2.1), flushTimer (2.2.3), editTimer (2.5.0) is armed;
\*   idleTimer (2.5.0) is armed; isReply (2.5.0); isComplete (2.2.3);
\*   leaked: the timers of the state that are pending with no handle left to
\*     cancel them, because the field that held the handle was overwritten.
NewState ==
  [thinkingMsg |-> 0, responseMsg |-> 0, message |-> 0,
   buffer |-> EmptyStr, thinkingBuf |-> EmptyStr, responseBuf |-> EmptyStr,
   mode |-> "thinking", sentLength |-> 0, displayedLength |-> 0,
   timer |-> FALSE, idleTimer |-> FALSE, isReply |-> TRUE, isComplete |-> FALSE,
   leaked |-> 0]

\* handleMessage(m): pc is "new" (not arrived), "inject" (awaiting ctx.inject),
\* "final" (awaiting the final flush) or "done";
\* key is its session key; inj counts its calls of ctx.inject; recv counts the
\* characters onStream delivered; settled is "", "resolved" or "rejected"; term lists, in
\* order, what the handler issued at its end: "ok" (check mark), "fail" (cross),
\* "reply" (the error reply); superseded records that a later inbound message
\* opened a stream for the key while the stream of m was registered; logged
\* records the call of ctx.logMessage; eyes is "" (no call of message.react for
\* the eyes reaction), "asked" (the call is awaited), "shown" or "failed".
\* Two more values of pc belong to the runs that follow the start of
\* handleMessage step by step: "dropped" (returned before the eyes reaction) and
\* "react" (awaiting the eyes reaction).
NewHandler ==
  [pc |-> "new", key |-> 0, inj |-> 0, recv |-> 0, settled |-> "", term |-> << >>,
   superseded |-> FALSE, logged |-> FALSE, eyes |-> ""]

NoOp == [kind |-> "none", target |-> 0, body |-> EmptyStr, resp |-> FALSE]

\* A platform request: kind "reply" (replyTo.reply), "send" (channel.send) or
\* "edit" (message.edit on handle target) with its body; resp records whether the
\* StreamState was in response mode when the request was issued.
Op(kind, target, body, s) ==
  [kind |-> kind, target |-> target, body |-> body, resp |-> (s.mode = "response")]

\* A suspended invocation: it works on StreamState sid for handleMessage m (0 for
\* a timer callback), awaits op at place pc of the flush routine, holds the
\* routine's locals (text, chunks, index i, pfx) and goes on with continuation
\* cont when the routine returns: "frag" (the rest of the fragment handler,
\* nothing but bookkeeping), "trans" (the rest of a mode transition for fragment
\* frag), "timer" (nothing), "final" (the rest of handleMessage).
Task(sid, m, cont) ==
  [sid |-> sid, m |-> m, cont |-> cont, pc |-> "", text |-> EmptyStr,
   chunks |-> << >>, i |-> 0, pfx |-> FALSE, frag |-> EmptyStr, op |-> NoOp]

\* The model's state as one record, so that a handler's run between two awaits is
\* a function from state to state.
World ==
  [streams |-> streams, st |-> st, hm |-> hm, tasks |-> tasks, msgs |-> msgs,
   shown |-> shown, fails |-> fails, nfrag |-> nfrag, nbig |-> nbig]

SetWorld(w) ==
  /\ streams' = w.streams
  /\ st' = w.st
  /\ hm' = w.hm
  /\ tasks' = w.tasks
  /\ msgs' = w.msgs
  /\ shown' = w.shown
  /\ fails' = w.fails
  /\ nfrag' = w.nfrag
  /\ nbig' = w.nbig
  /\ UNCHANGED <<version, split, config, pairing, gate, relay>>

\* An await on a platform request: the invocation is parked until it completes.
Suspend(w, t) == [w EXCEPT !.tasks = @ (+) SetToBag({t})]

\* The key of StreamState sid.
KeyOf(w, sid) == w.hm[sid].key

\* The end of handleMessage: `await message.reactions.cache.get(eyes)?.users
\* .remove(...); await message.react(emoji)` inside try/catch, and on the error
\* path the error reply after it. rm: the removal of the eyes reaction does not
\* reject (or there is none to remove, the first react having failed); a rejected
\* removal skips the react call and counts as a failed platform request. These
\* awaits touch no state of the reconciler and are taken in one step.
TerminalReaction(w, m, emoji, rm) ==
  LET issued == IF rm THEN <<emoji>> ELSE << >>
      after  == IF emoji = "fail" THEN issued \o <<"reply">> ELSE issued
  IN  [w EXCEPT !.hm[m].pc = "done", !.hm[m].term = @ \o after,
                !.fails = IF rm THEN @ ELSE @ + 1]

\* The platform completes the request of suspended invocation t: the invocation
\* leaves the bag; a successful reply or send appends a message, a successful edit
\* replaces the body of its target; a failure changes nothing on the platform.
Complete(w, t, ok) ==
  LET w1 == [w EXCEPT !.tasks = @ (-) SetToBag({t})]
      newMsg == [kind |-> t.op.kind, body |-> t.op.body]
  IN  IF ~ok THEN [w1 EXCEPT !.fails = @ + 1]
      ELSE [w1 EXCEPT !.msgs[t.sid] = IF t.op.kind = "edit"
                                      THEN [@ EXCEPT ![t.op.target].body = t.op.body]
                                      ELSE Append(@, newMsg),
                      !.shown[t.sid] = @ \cup Chars(t.op.body)]

\* The handle the completed request of t yields, given the messages before it.
HandleOf(w, t) ==
  IF t.op.kind = "edit" THEN t.op.target ELSE Len(w.msgs[t.sid]) + 1

\* handleMessage is about to open a stream for key: the stream registered for the
\* key, if any, is superseded.
Superseding(w, key) ==
  IF w.streams[key] # 0 THEN [w EXCEPT !.hm[w.streams[key]].superseded = TRUE] ELSE w

\* A fragment arrives through onStream of inject call m.
Deliver(w, m, text) ==
  [w EXCEPT !.nfrag = @ + 1,
            !.nbig = IF StrLen(text) > DISCORD_LIMIT THEN @ + 1 ELSE @,
            !.hm[m].recv = @ + StrLen(text)]

\* ---------------------------------------------------------------- v2.2.1

Digits == {"0", "1", "2", "3", "4", "5", "6", "7", "8", "9"}

Lower == {Alphabet[i] : i \in 1..26}

Upper ==
  {"A", "B", "C", "D", "E", "F", "G", "H", "I", "J", "K", "L", "M",
   "N", "O", "P", "Q", "R", "S", "T", "U", "V", "W", "X", "Y", "Z"}

\* s without its longest prefix of characters from set.
RECURSIVE SkipWhile(_, _)
SkipWhile(s, set) ==
  IF s # << >> /\ s[1].c \in set THEN SkipWhile(Tail(s), set) ELSE s

\* /^\d+\./.test(s)
StartsNumbered(s) ==
  /\ s # << >>
  /\ s[1].c \in Digits
  /\ LET r == SkipWhile(s, Digits) IN r # << >> /\ r[1].c = "."

\* /^[A-Z][a-z]+ \d+:/.test(s)
StartsLabelled(s) ==
  /\ Len(s) >= 2
  /\ s[1].c \in Upper /\ s[1].n = 1
  /\ s[2].c \in Lower
  /\ LET r == SkipWhile(Tail(s), Lower)
     IN  /\ Len(r) >= 2
         /\ r[1].c = " " /\ r[1].n = 1
         /\ r[2].c \in Digits
         /\ LET q == SkipWhile(Tail(r), Digits) IN q # << >> /\ q[1].c = ":"

\* looksLikeResponseStart(text), version 2.2.1 (2.2.3 has the same body). The
\* backtick is character "tick" here.
looksLikeResponseStart(text) ==
  LET trimmed == Trim(text)
  IN  \/ StartsWithRep(trimmed, "#", 1)
      \/ StartsWithRep(trimmed, "-", 3)
      \/ StartsWithRep(trimmed, "tick", 3)
      \/ StartsWithRep(trimmed, ">", 1)
      \/ StartsWithRep(trimmed, "|", 1)
      \/ StartsNumbered(trimmed)
      \/ StartsLabelled(trimmed)
      \/ StartsWithRep(trimmed, "*", 2)
      \/ /\ StrLen(text) > FORMATTED_MIN_221
         /\ \/ IncludesRep(text, "tick", 3)
            \/ IncludesRep(text, "*", 2)
            \/ IncludesRep(text, "|", 1)

\* clearTimeout(state.<field>): the timer the field refers to, if pending, is
\* cancelled.
clearTimeout(w, sid, field) == [w EXCEPT !.st[sid][field] = FALSE]

\* state.<field> = setTimeout(...): a new timer is pending and the field refers to
\* it; a timer the field referred to and that is still pending stays pending.
setTimeout(w, sid, field) ==
  [w EXCEPT !.st[sid].leaked = @ + (IF w.st[sid][field] THEN 1 ELSE 0),
            !.st[sid][field] = TRUE]

\* A faulty variant of scheduleFlush: the timer is armed without cancelling the
\* one before.
scheduleFlushKeep(w, sid) == setTimeout(w, sid, "timer")

\* scheduleFlush(sessionKey, state): replaces the 300 ms timer of the state.
scheduleFlush(w, sid) == setTimeout(clearTimeout(w, sid, "timer"), sid, "timer")

\* A faulty variant of FlushChunk221: the later chunks of a split flush keep the
\* prefix the flush began with, whatever the mode has become.
FlushChunk221Prefixed(w, t) ==
  LET s == w.st[t.sid]
      chunk == t.chunks[t.i]
      chunkText == IF t.pfx THEN Concat(THINK_PREFIX, chunk) ELSE chunk
      op == IF s.mode = "thinking"
            THEN IF s.thinkingMsg # 0 /\ t.i = 1
                 THEN Op("edit", s.thinkingMsg, chunkText, s)
                 ELSE Op("send", 0, chunkText, s)
            ELSE IF s.responseMsg # 0 /\ t.i = 1
                 THEN Op("edit", s.responseMsg, chunkText, s)
                 ELSE IF t.i = 1
                      THEN Op("reply", 0, chunkText, s)
                      ELSE Op("send", 0, chunkText, s)
  IN  Suspend(w, [t EXCEPT !.op = op])

\* One pass of the split loop of flushState up to its await: the request for
\* chunk i (counted from 1 here), chosen by the mode the state has now.
FlushChunk221(w, t) ==
  LET s == w.st[t.sid]
      chunk == t.chunks[t.i]
      chunkText == IF t.pfx THEN Concat(THINK_PREFIX, chunk) ELSE chunk
      op == IF s.mode = "thinking"
            THEN IF s.thinkingMsg # 0 /\ t.i = 1
                 THEN Op("edit", s.thinkingMsg, chunkText, s)
                 ELSE Op("send", 0, chunkText, s)
            ELSE IF s.responseMsg # 0 /\ t.i = 1
                 THEN Op("edit", s.responseMsg, chunkText, s)
                 ELSE IF t.i = 1
                      THEN Op("reply", 0, chunkText, s)
                      ELSE Op("send", 0, chunk, s)
  IN  Suspend(w, [t EXCEPT !.op = op])

\* flushState(state, force) from its entry to its first await (ret FALSE) or to
\* its return when the trimmed buffer is empty (ret TRUE).
flushState(w, t) ==
  LET s == w.st[t.sid]
      text == Trim(s.buffer)
      pfx == s.mode = "thinking"
      prefix == IF pfx THEN THINK_PREFIX ELSE EmptyStr
      fullText == Concat(prefix, text)
      op == IF s.mode = "thinking"
            THEN IF s.thinkingMsg # 0
                 THEN Op("edit", s.thinkingMsg, fullText, s)
                 ELSE Op("send", 0, fullText, s)
            ELSE IF s.responseMsg # 0
                 THEN Op("edit", s.responseMsg, fullText, s)
                 ELSE Op("reply", 0, fullText, s)
  IN  IF text = EmptyStr THEN [w |-> w, ret |-> TRUE]
      ELSE IF StrLen(fullText) > DISCORD_LIMIT
      THEN [w |-> FlushChunk221(w, [t EXCEPT
                     !.pc = "split",
                     !.chunks = splitMessage(text, DISCORD_LIMIT - StrLen(prefix)),
                     !.i = 1,
                     !.pfx = pfx]),
            ret |-> FALSE]
      ELSE [w |-> Suspend(w, [t EXCEPT !.pc = "norm", !.op = op]), ret |-> FALSE]

\* A faulty variant of Append221: the mode follows the heuristic on every
\* fragment, so a plain fragment puts a responding stream back into thinking.
Append221Remode(w, t, text) ==
  LET mode == IF looksLikeResponseStart(text) THEN "response" ELSE "thinking"
      w1 == [w EXCEPT !.st[t.sid].buffer = Concat(@, text), !.st[t.sid].mode = mode]
  IN  IF StrLen(w1.st[t.sid].buffer) >= COALESCE_CHARS
      THEN flushState(w1, [t EXCEPT !.cont = "frag"]).w
      ELSE scheduleFlush(w1, t.sid)

\* handleStream from `state.buffer += text` to its end.
Append221(w, t, text) ==
  LET w1 == [w EXCEPT !.st[t.sid].buffer = Concat(@, text)]
  IN  IF StrLen(w1.st[t.sid].buffer) >= COALESCE_CHARS
      THEN flushState(w1, [t EXCEPT !.cont = "frag"]).w
      ELSE scheduleFlush(w1, t.sid)

\* handleStream after the flush of the remaining thinking returned: the mode
\* changes, the buffer is emptied and the fragment is appended.
Transition221(w, t) ==
  Append221([w EXCEPT !.st[t.sid].mode = "response", !.st[t.sid].buffer = EmptyStr],
            t, t.frag)

\* handleStream(msg, sessionKey) for fragment text of inject call m.
handleStream221(w, m, text) ==
  LET sid == w.streams[w.hm[m].key]
      t == [Task(sid, m, "trans") EXCEPT !.frag = text]
      r == flushState(w, t)
  IN  IF sid = 0 THEN w
      ELSE IF w.st[sid].mode = "thinking" /\ looksLikeResponseStart(text)
      THEN IF r.ret THEN Transition221(r.w, t) ELSE r.w
      ELSE Append221(w, t, text)

\* handleMessage after its final flush: streams.delete(sessionKey), then the
\* reactions.
Finalize221(w, m, rm) ==
  TerminalReaction([w EXCEPT !.streams[w.hm[m].key] = 0], m, "ok", rm)

\* The catch block of handleMessage: the timer of the stream registered for the
\* key is cleared, the registration deleted, then the reactions and the error
\* reply.
Catch221(w, m, rm) ==
  LET state == w.streams[w.hm[m].key]
      w1 == IF state # 0 THEN [w EXCEPT !.st[state].timer = FALSE] ELSE w
  IN  TerminalReaction([w1 EXCEPT !.streams[w.hm[m].key] = 0], m, "fail", rm)

\* What follows a return of flushState, by caller.
Return221(w, t, rm) ==
  CASE t.cont = "trans" -> Transition221(w, t)
    [] t.cont = "frag"  -> w
    [] t.cont = "timer" -> w
    [] t.cont = "final" -> Finalize221(w, t.m, rm)

\* What follows a rejection of flushState (its split loop awaits outside any
\* try): handleStream and the timer callback drop it in their .catch, the final
\* flush of handleMessage lands in the catch block.
Throw221(w, t, rm) ==
  IF t.cont = "final" THEN Catch221(w, t.m, rm) ELSE w

\* flushState resumed when the request it awaited completes: ok with handle h,
\* or rejected.
Resume221(w, t, ok, h, rm) ==
  LET sid == t.sid
      assigned ==
        IF ~ok \/ t.op.kind = "edit" THEN w
        ELSE IF t.op.kind = "reply" THEN [w EXCEPT !.st[sid].responseMsg = h]
        ELSE IF ~t.op.resp THEN [w EXCEPT !.st[sid].thinkingMsg = h]
        ELSE w
  IN  IF t.pc = "norm" THEN Return221(assigned, t, rm)
      ELSE IF ~ok THEN Throw221(w, t, rm)
      ELSE IF t.i < Len(t.chunks)
      THEN FlushChunk221(assigned, [t EXCEPT !.i = @ + 1])
      ELSE Return221([assigned EXCEPT !.st[sid].buffer = EmptyStr], t, rm)

\* The callback of the flush timer of StreamState sid.
TimerCallback221(w, sid) ==
  flushState([w EXCEPT !.st[sid].timer = FALSE], Task(sid, 0, "timer")).w

\* handleMessage up to `await ctx.inject(...)`.
Open221(w, m, key) ==
  LET existing == w.streams[key]
      w1 == IF existing # 0 THEN [w EXCEPT !.st[existing].timer = FALSE] ELSE w
  IN  [w1 EXCEPT !.streams[key] = m,
                 !.st[m] = NewState,
                 !.hm[m] = [@ EXCEPT !.pc = "inject", !.key = key, !.inj = @ + 1]]

\* handleMessage after inject resolved: the final flush works on the state this
\* call created, whatever the registry holds.
Resolved221(w, m, rm) ==
  LET w1 == [w EXCEPT !.hm[m].pc = "final", !.hm[m].settled = "resolved",
                      !.st[m].timer = FALSE]
      r  == flushState(w1, Task(m, m, "final"))
  IN  IF r.ret THEN Finalize221(r.w, m, rm) ELSE r.w

\* A faulty variant of Rejected221: the first rejection is answered by calling
\* inject again.
Rejected221Retry(w, m, rm) ==
  IF w.hm[m].inj < 2
  THEN [w EXCEPT !.hm[m].inj = @ + 1]
  ELSE Catch221([w EXCEPT !.hm[m].settled = "rejected"], m, rm)

\* handleMessage after inject rejected.
Rejected221(w, m, rm) ==
  Catch221([w EXCEPT !.hm[m].settled = "rejected"], m, rm)

\* ---------------------------------------------------------------- v2.2.0

\* looksLikeResponseStart(text), version 2.2.0.
looksLikeResponseStart220(text) ==
  LET trimmed == Trim(text)
  IN  \/ StartsWithRep(trimmed, "#", 1)
      \/ StartsWithRep(trimmed, "-", 3)
      \/ StartsWithRep(trimmed, "tick", 3)
      \/ StartsWithRep(trimmed, ">", 1)
      \/ StartsWithRep(trimmed, "|", 1)
      \/ StartsNumbered(trimmed)
      \/ StartsLabelled(trimmed)
      \/ /\ StrLen(text) > FORMATTED_MIN_220
         /\ \/ IncludesRep(text, "tick", 3)
            \/ IncludesRep(text, "*", 2)

\* One pass of a loop over chunks up to its await: the request for chunk i
\* (counted from 1 here). pc "think_flush" and "final_flush" send every chunk
\* under the thinking prefix; pc "resp" replies with or edits the first chunk and
\* sends the others.
SendChunk220(w, t) ==
  LET s == w.st[t.sid]
      chunk == t.chunks[t.i]
      op == IF t.pc = "resp"
            THEN IF t.i > 1 THEN Op("send", 0, chunk, s)
                 ELSE IF s.responseMsg = 0 THEN Op("reply", 0, chunk, s)
                 ELSE Op("edit", s.responseMsg, chunk, s)
            ELSE Op("send", 0, Concat(THINK_PREFIX, chunk), s)
  IN  Suspend(w, [t EXCEPT !.op = op])

\* handleStream from `if (state.inResponse)` to its first await, or to its end
\* when it awaits nothing; t.frag is the fragment.
Route220(w, t) ==
  LET sid == t.sid
      wr == [w EXCEPT !.st[sid].responseBuf = Concat(@, t.frag)]
      wt == [w EXCEPT !.st[sid].thinkingBuf = Concat(@, t.frag)]
      s == wt.st[sid]
      chunks == chunkMessage(Trim(s.thinkingBuf), DISCORD_LIMIT)
      last == chunks[Len(chunks)]
  IN  IF w.st[sid].mode = "response"
      THEN SendChunk220(wr, [t EXCEPT !.pc = "resp", !.i = 1,
                                      !.chunks = chunkMessage(wr.st[sid].responseBuf,
                                                              DISCORD_LIMIT)])
      ELSE IF StrLen(s.thinkingBuf) > THINKING_UPDATE_CHARS
              \/ IncludesRep(t.frag, "\n", 2)
      THEN Suspend(wt, [t EXCEPT
             !.pc = "think_update",
             !.op = IF s.thinkingMsg = 0
                    THEN Op("send", 0, Concat(THINK_PREFIX, last), s)
                    ELSE Op("edit", s.thinkingMsg,
                            Concat(THINK_PREFIX, Take(last, THINKING_EDIT_SLICE)), s)])
      ELSE wt

\* handleStream(msg, channel, replyTo, state) for fragment text of inject call m;
\* the state is the one handleMessage m created.
handleStream220(w, m, text) ==
  LET t == [Task(m, m, "frag") EXCEPT !.frag = text]
      s == w.st[m]
      w1 == [w EXCEPT !.st[m].mode = "response"]
  IN  IF s.mode = "thinking" /\ looksLikeResponseStart220(text)
      THEN IF Trim(s.thinkingBuf) # EmptyStr
           THEN SendChunk220(w1, [t EXCEPT !.pc = "think_flush", !.i = 1,
                                           !.chunks = chunkMessage(Trim(s.thinkingBuf),
                                                                   DISCORD_LIMIT)])
           ELSE Route220(w1, t)
      ELSE Route220(w, t)

\* The end of handleMessage on the success path: the reactions, then
\* streams.delete(sessionKey).
Finalize220(w, m, rm) ==
  [TerminalReaction(w, m, "ok", rm) EXCEPT !.streams[w.hm[m].key] = 0]

\* The catch block of handleMessage and the streams.delete after it.
Catch220(w, m, rm) ==
  TerminalReaction([w EXCEPT !.streams[w.hm[m].key] = 0], m, "fail", rm)

\* A loop of handleStream or handleMessage resumed when the request it awaited
\* completes: ok with handle h, or rejected. No loop of this version catches a
\* rejection: handleStream ends (its caller drops the rejection), the final
\* flush of handleMessage lands in the catch block.
Resume220(w, t, ok, h, rm) ==
  LET sid == t.sid
      assigned ==
        IF t.pc = "resp" /\ t.op.kind = "reply" THEN [w EXCEPT !.st[sid].responseMsg = h]
        ELSE IF t.pc = "think_update" /\ t.op.kind = "send"
        THEN [w EXCEPT !.st[sid].thinkingMsg = h]
        ELSE w
  IN  IF ~ok THEN (IF t.cont = "final" THEN Catch220(w, t.m, rm) ELSE w)
      ELSE IF t.pc # "think_update" /\ t.i < Len(t.chunks)
      THEN SendChunk220(assigned, [t EXCEPT !.i = @ + 1])
      ELSE CASE t.pc = "think_flush" -> Route220(assigned, t)
             [] t.pc = "final_flush" -> Finalize220(assigned, t.m, rm)
             [] OTHER -> assigned

\* handleMessage up to `await ctx.inject(...)`: the new state replaces whatever
\* the registry holds for the key.
Open220(w, m, key) ==
  [w EXCEPT !.streams[key] = m,
            !.st[m] = NewState,
            !.hm[m] = [@ EXCEPT !.pc = "inject", !.key = key, !.inj = @ + 1]]

\* handleMessage after inject resolved.
Resolved220(w, m, rm) ==
  LET w1 == [w EXCEPT !.hm[m].pc = "final", !.hm[m].settled = "resolved"]
      s == w.st[m]
  IN  IF s.mode = "thinking" /\ Trim(s.thinkingBuf) # EmptyStr
      THEN SendChunk220(w1, [Task(m, m, "final") EXCEPT
                               !.pc = "final_flush", !.i = 1,
                               !.chunks = chunkMessage(Trim(s.thinkingBuf), DISCORD_LIMIT)])
      ELSE Finalize220(w1, m, rm)

\* handleMessage after inject rejected.
Rejected220(w, m, rm) ==
  Catch220([w EXCEPT !.hm[m].settled = "rejected"], m, rm)

\* ---------------------------------------------------------------- v2.2.3

\* scheduleUpdate(sessionKey, state): replaces the 500 ms timer of the state.
scheduleUpdate(w, sid) == setTimeout(clearTimeout(w, sid, "timer"), sid, "timer")

\* One pass of the while loop of updateDiscordMessage's last branch up to its
\* await; t.text is `remaining`.
UpdateChunk223(w, t) ==
  Suspend(w, [t EXCEPT !.pc = "more",
                       !.op = Op("send", 0, Take(t.text, DISCORD_LIMIT), w.st[t.sid])])

\* updateDiscordMessage(state) from its entry to its first await (ret FALSE) or
\* to its return when there is nothing new to show (ret TRUE).
updateDiscordMessage(w, t) ==
  LET s == w.st[t.sid]
      fullText == Trim(s.buffer)
      chunk == Take(fullText, DISCORD_LIMIT)
  IN  IF fullText = EmptyStr \/ StrLen(fullText) <= s.displayedLength
      THEN [w |-> w, ret |-> TRUE]
      ELSE [ret |-> FALSE,
            w |-> IF s.message = 0
                  THEN Suspend(w, [t EXCEPT !.pc = "create", !.text = chunk,
                                            !.op = Op("reply", 0, chunk, s)])
                  ELSE IF StrLen(fullText) <= DISCORD_LIMIT
                  THEN Suspend(w, [t EXCEPT !.pc = "edit", !.text = fullText,
                                            !.op = Op("edit", s.message, fullText, s)])
                  ELSE UpdateChunk223(w, [t EXCEPT
                                            !.text = Drop(fullText, s.displayedLength)])]

\* hasNaturalBreak of handleStream
hasNaturalBreak(text) ==
  \/ IncludesRep(text, "\n", 2)
  \/ IncludesSeq2(text, ".", " ")
  \/ IncludesSeq2(text, "?", " ")
  \/ IncludesSeq2(text, "!", " ")

\* handleStream from `state.buffer += text` to its end.
Append223(w, t, text) ==
  LET w1 == [w EXCEPT !.st[t.sid].buffer = Concat(@, text)]
      newContentLength == StrLen(w1.st[t.sid].buffer) - w1.st[t.sid].displayedLength
  IN  IF \/ newContentLength >= EDIT_COALESCE_CHARS
         \/ hasNaturalBreak(text) /\ newContentLength > NATURAL_BREAK_FLOOR
      THEN updateDiscordMessage(w1, [t EXCEPT !.cont = "frag"]).w
      ELSE scheduleUpdate(w1, t.sid)

\* handleStream after the flush of the thinking returned: the mode changes and
\* the fragment is appended.
Transition223(w, t) ==
  Append223([w EXCEPT !.st[t.sid].mode = "response"], t, t.frag)

\* handleStream(msg, sessionKey) for fragment text of inject call m.
handleStream223(w, m, text) ==
  LET sid == w.streams[w.hm[m].key]
      t == [Task(sid, m, "trans") EXCEPT !.frag = text]
      r == updateDiscordMessage(w, t)
  IN  IF sid = 0 THEN w
      ELSE IF w.st[sid].isComplete THEN w
      ELSE IF w.st[sid].mode = "thinking" /\ looksLikeResponseStart(text)
      THEN IF r.ret THEN Transition223(r.w, t) ELSE r.w
      ELSE Append223(w, t, text)

\* One pass of a for loop of flushFinal up to its await: chunk i (counted from 1
\* here); pc "final_split" is the loop of the branch without a message, whose
\* first chunk is a reply, pc "final_send" the loop of the last branch.
FinalChunk223(w, t) ==
  Suspend(w, [t EXCEPT !.op = Op(IF t.pc = "final_split" /\ t.i = 1
                                 THEN "reply" ELSE "send",
                                 0, t.chunks[t.i], w.st[t.sid])])

\* What follows a return of updateDiscordMessage or flushFinal, by caller.
Return223(w, t, rm) ==
  CASE t.cont = "trans" -> Transition223(w, t)
    [] t.cont = "frag"  -> w
    [] t.cont = "timer" -> w
    [] t.cont = "final" -> Finalize221(w, t.m, rm)

\* flushFinal(state) from its entry to its first await, or to its return when it
\* awaits nothing.
flushFinal(w, t, rm) ==
  LET w1 == [w EXCEPT !.st[t.sid].timer = FALSE, !.st[t.sid].isComplete = TRUE]
      s == w1.st[t.sid]
      fullText == Trim(s.buffer)
      remaining == Drop(fullText, s.displayedLength)
  IN  IF fullText = EmptyStr THEN Return223(w1, t, rm)
      ELSE IF s.message = 0
      THEN FinalChunk223(w1, [t EXCEPT !.pc = "final_split", !.i = 1,
                                       !.chunks = splitMessage(fullText, DISCORD_LIMIT)])
      ELSE IF StrLen(fullText) <= DISCORD_LIMIT
      THEN Suspend(w1, [t EXCEPT !.pc = "final_edit",
                                 !.op = Op("edit", s.message, fullText, s)])
      ELSE IF remaining # EmptyStr
      THEN FinalChunk223(w1, [t EXCEPT !.pc = "final_send", !.i = 1,
                                       !.chunks = splitMessage(remaining, DISCORD_LIMIT)])
      ELSE Return223(w1, t, rm)

\* updateDiscordMessage or flushFinal resumed when the request it awaited
\* completes: ok with handle h, or rejected (both catch it and return).
Resume223(w, t, ok, h, rm) ==
  LET sid == t.sid
      rest == Drop(t.text, DISCORD_LIMIT)
      shownMore == [w EXCEPT !.st[sid].displayedLength = @ + StrLen(t.op.body)]
  IN  IF ~ok THEN Return223(w, t, rm)
      ELSE CASE t.pc = "create" ->
                  Return223([w EXCEPT !.st[sid].message = h,
                                      !.st[sid].displayedLength = StrLen(t.text)], t, rm)
             [] t.pc = "edit" ->
                  Return223([w EXCEPT !.st[sid].displayedLength = StrLen(t.text)], t, rm)
             [] t.pc = "more" ->
                  IF StrLen(rest) > 0
                  THEN UpdateChunk223(shownMore, [t EXCEPT !.text = rest])
                  ELSE Return223(shownMore, t, rm)
             [] t.pc = "final_edit" -> Return223(w, t, rm)
             [] t.pc \in {"final_split", "final_send"} ->
                  LET w1 == IF t.op.kind = "reply"
                            THEN [w EXCEPT !.st[sid].message = h] ELSE w
                  IN  IF t.i < Len(t.chunks)
                      THEN FinalChunk223(w1, [t EXCEPT !.i = @ + 1])
                      ELSE Return223(w1, t, rm)

\* The callback of the flush timer of StreamState sid.
TimerCallback223(w, sid) ==
  updateDiscordMessage([w EXCEPT !.st[sid].timer = FALSE], Task(sid, 0, "timer")).w

\* handleMessage after inject resolved: flushFinal works on the state this call
\* created, whatever the registry holds.
Resolved223(w, m, rm) ==
  flushFinal([w EXCEPT !.hm[m].pc = "final", !.hm[m].settled = "resolved"],
             Task(m, m, "final"), rm)

\* ---------------------------------------------------------------- v2.5.0

\* clearTimers(state)
clearTimers(w, sid) == clearTimeout(clearTimeout(w, sid, "timer"), sid, "idleTimer")

\* scheduleEdit(sessionKey, state): arms the 100 ms edit timer unless one is armed.
scheduleEdit(w, sid) == IF w.st[sid].timer THEN w ELSE setTimeout(w, sid, "timer")

\* startIdleTimer(sessionKey, state): (re)arms the 1 s idle timer.
startIdleTimer(w, sid) ==
  setTimeout(clearTimeout(w, sid, "idleTimer"), sid, "idleTimer")

\* handleMessage after its final flush: streams.delete(sessionKey), then the
\* reactions.
Finalize250(w, m, rm) ==
  TerminalReaction([w EXCEPT !.streams[w.hm[m].key] = 0], m, "ok", rm)

\* What follows a return of sendOrEdit, by caller.
Return250(w, t, rm) ==
  CASE t.cont = "frag"  -> startIdleTimer(w, t.sid)
    [] t.cont = "timer" -> w
    [] t.cont = "final" -> Finalize250(w, t.m, rm)

\* sendOrEdit(state) from its entry to its first await, or to its return when it
\* awaits nothing. t carries the caller (sid, m, cont).
sendOrEdit(w, t, rm) ==
  LET s == w.st[t.sid]
      content == Trim(s.buffer)
      park(pc, op) == Suspend(w, [t EXCEPT !.pc = pc, !.text = content, !.op = op])
      create == IF s.isReply THEN "reply" ELSE "send"
  IN  IF content = EmptyStr THEN Return250(w, t, rm)
      ELSE IF StrLen(content) > DISCORD_LIMIT
      THEN IF s.message # 0
           THEN park("split_edit", Op("edit", s.message, Take(content, DISCORD_LIMIT), s))
           ELSE park("split_create", Op(create, 0, Take(content, DISCORD_LIMIT), s))
      ELSE IF s.message = 0
           THEN park("norm_create", Op(create, 0, content, s))
           ELSE park("norm_edit", Op("edit", s.message, content, s))

\* sendOrEdit after the split branch's edit or create: the rest of the old message
\* becomes the buffer of a new one and sendOrEdit calls itself.
Rotate250(w, t, rm) ==
  sendOrEdit([w EXCEPT !.st[t.sid].buffer = Drop(t.text, DISCORD_LIMIT),
                       !.st[t.sid].sentLength = 0,
                       !.st[t.sid].message = 0],
             t, rm)

\* sendOrEdit resumed when the request it awaited completes: ok with handle h (the
\* new message of a reply or send), or rejected.
Resume250(w, t, ok, h, rm) ==
  LET sid == t.sid
      created == [w EXCEPT !.st[sid].message = h,
                           !.st[sid].isReply = IF t.op.kind = "reply" THEN FALSE ELSE @]
  IN  CASE t.pc = "split_edit" ->
             Rotate250(IF ok THEN [w EXCEPT !.st[sid].sentLength = DISCORD_LIMIT] ELSE w,
                       t, rm)
        [] t.pc = "split_create" ->
             IF ok THEN Rotate250(created, t, rm)
             ELSE Return250(w, t, rm)
        [] t.pc = "norm_create" ->
             Return250(IF ok THEN [created EXCEPT !.st[sid].sentLength = StrLen(t.text)]
                       ELSE w, t, rm)
        [] t.pc = "norm_edit" ->
             Return250(IF ok THEN [w EXCEPT !.st[sid].sentLength = StrLen(t.text)]
                       ELSE w, t, rm)

\* handleChunk(msg, sessionKey) for fragment text of inject call m.
handleChunk(w, m, text) ==
  LET sid == w.streams[w.hm[m].key]
      w1  == [w EXCEPT !.st[sid].buffer = Concat(@, text)]
      newContent == Drop(w1.st[sid].buffer, w1.st[sid].sentLength)
  IN  IF sid = 0 THEN w
      ELSE IF StrLen(newContent) >= EDIT_THRESHOLD
      THEN sendOrEdit(clearTimers(w1, sid),
                      Task(sid, m, "frag"), TRUE)
      ELSE startIdleTimer(scheduleEdit(w1, sid), sid)

\* The callback of the edit timer of StreamState sid.
EditTimerCallback(w, sid) ==
  LET w1 == [w EXCEPT !.st[sid].timer = FALSE]
      newContent == Drop(w1.st[sid].buffer, w1.st[sid].sentLength)
  IN  IF StrLen(newContent) > 0
      THEN sendOrEdit(w1, Task(sid, 0, "timer"), TRUE)
      ELSE w1

\* The callback of the idle timer of StreamState sid.
IdleTimerCallback(w, sid) ==
  [clearTimers(w, sid) EXCEPT !.streams[KeyOf(w, sid)] = 0]

\* handleMessage up to `await ctx.inject(...)`: the stream registered for the key
\* is cleaned up and replaced.
Open250(w, m, key) ==
  LET existing == w.streams[key]
      w1 == IF existing # 0 THEN clearTimers(w, existing) ELSE w
  IN  [w1 EXCEPT !.streams[key] = m,
                 !.st[m] = NewState,
                 !.hm[m] = [@ EXCEPT !.pc = "inject", !.key = key, !.inj = @ + 1]]

\* handleMessage after inject resolved.
Resolved250(w, m, rm) ==
  LET finalState == w.streams[w.hm[m].key]
      w1 == [w EXCEPT !.hm[m].pc = "final", !.hm[m].settled = "resolved"]
  IN  IF finalState # 0
      THEN sendOrEdit(clearTimers(w1, finalState),
                      Task(finalState, m, "final"), rm)
      ELSE TerminalReaction(w1, m, "ok", rm)

\* A faulty variant of Rejected250: the catch block drops every registered
\* stream, not the one of its own session key.
Rejected250All(w, m, rm) ==
  LET w1 == [w EXCEPT !.hm[m].settled = "rejected"]
  IN  TerminalReaction([w1 EXCEPT !.streams = [k \in Keys |-> 0]], m, "fail", rm)

\* handleMessage's catch block after inject rejected.
Rejected250(w, m, rm) ==
  LET failState == w.streams[w.hm[m].key]
      w1 == [w EXCEPT !.hm[m].settled = "rejected"]
      w2 == IF failState # 0 THEN clearTimers(w1, failState) ELSE w1
  IN  TerminalReaction([w2 EXCEPT !.streams[w.hm[m].key] = 0], m, "fail", rm)

\* ---------------------------------------------------------------- actions

NoStreams ==
  /\ streams = [k \in Keys |-> 0]
  /\ st = [m \in Msgs |-> NewState]
  /\ hm = [m \in Msgs |-> NewHandler]
  /\ tasks = EmptyBag
  /\ msgs = [m \in Msgs |-> << >>]
  /\ shown = [m \in Msgs |-> {}]
  /\ fails = 0
  /\ nfrag = 0
  /\ nbig = 0

InitStreams == version \in Versions /\ NoStreams

\* The state after construction: no stream, no call of the chunker under way.
Init ==
  /\ InitStreams
  /\ split = IdleSplit
  /\ config = NoRequests
  /\ pairing = IdlePairing
  /\ gate = IdleGate
  /\ relay = IdleRelay

\* Inbound messages are numbered in their order of arrival.
CanArrive(m) ==
  /\ hm[m].pc = "new"
  /\ (IF m = 1 THEN TRUE ELSE hm[m - 1].pc # "new")

\* onStream is called while inject is pending.
CanDeliver(m, shape) ==
  /\ hm[m].pc = "inject"
  /\ nfrag < MaxFrags
  /\ (IF shape = "big" THEN nbig < MaxBig ELSE TRUE)

\* At most MaxFails platform requests fail in a run: the completed request (~ok)
\* and the removal of the eyes reaction (~rm), which only the invocation that
\* carries the rest of handleMessage can reach.
CanFail(t, ok, rm) ==
  /\ (IF rm THEN TRUE ELSE t.cont = "final")
  /\ (IF ok THEN 0 ELSE 1) + (IF rm THEN 0 ELSE 1) + fails <= MaxFails

\* handleMessage from `const sessionKey = ...` to `await ctx.inject(...)`.
OpenStream(w, m, key) ==
  CASE version = "v220" -> Open220(Superseding(w, key), m, key)
    [] version \in {"v221", "v223"} -> Open221(Superseding(w, key), m, key)
    [] version = "v250" -> Open250(Superseding(w, key), m, key)

\* handleMessage(m) from ctx.logMessage to the call of message.react for the
\* eyes reaction, whose outcome is eyes.
Addressed(w, m, eyes) == [w EXCEPT !.hm[m].logged = TRUE, !.hm[m].eyes = eyes]

\* An inbound message that mentions the bot arrives on channel key: handleMessage
\* runs up to `await ctx.inject(...)`, the eyes reaction being added at once.
Arrive(m, key) ==
  /\ CanArrive(m)
  /\ \E next \in {OpenStream(Addressed(World, m, "shown"), m, key)} : SetWorld(next)

\* onStream of inject call m runs the fragment handler of the version with the
\* next fragment, of the given shape.
OnFragment(m, shape) ==
  \E text \in {FragText(nfrag + 1, shape)} :
    \E w \in {Deliver(World, m, text)} :
      \E next \in {CASE version = "v220" -> handleStream220(w, m, text)
                     [] version = "v221" -> handleStream221(w, m, text)
                     [] version = "v223" -> handleStream223(w, m, text)
                     [] version = "v250" -> handleChunk(w, m, text)} :
        SetWorld(next)

\* The assistant host calls onStream of inject call m with a text fragment.
OnStream(m, shape) ==
  /\ CanDeliver(m, shape)
  /\ OnFragment(m, shape)

\* The flush timer of a StreamState fires: timeout (2.2.1), flushTimer (2.2.3),
\* editTimer (2.5.0).
FlushTimer(sid) ==
  /\ st[sid].timer
  /\ \E next \in {CASE version = "v221" -> TimerCallback221(World, sid)
                    [] version = "v223" -> TimerCallback223(World, sid)
                    [] version = "v250" -> EditTimerCallback(World, sid)} :
       SetWorld(next)

\* The 1 s idle timer of a StreamState fires (2.5.0). It is always armed after
\* the 100 ms edit timer of the same state, so an armed edit timer fires first.
IdleTimer(sid) ==
  /\ st[sid].idleTimer
  /\ ~st[sid].timer
  /\ \E next \in {IdleTimerCallback(World, sid)} : SetWorld(next)

\* A platform request completes and the flush routine that awaited it goes on.
IoDone(t, ok, rm) ==
  /\ CanFail(t, ok, rm)
  /\ \E w \in {Complete(World, t, ok)}, h \in {HandleOf(World, t)} :
       \E next \in {CASE version = "v220" -> Resume220(w, t, ok, h, rm)
                      [] version = "v221" -> Resume221(w, t, ok, h, rm)
                      [] version = "v223" -> Resume223(w, t, ok, h, rm)
                      [] version = "v250" -> Resume250(w, t, ok, h, rm)} :
         SetWorld(next)

\* ctx.inject resolves.
Resolve(m, rm) ==
  /\ hm[m].pc = "inject"
  /\ (IF rm THEN TRUE ELSE fails < MaxFails)
  /\ \E next \in {CASE version = "v220" -> Resolved220(World, m, rm)
                    [] version = "v221" -> Resolved221(World, m, rm)
                    [] version = "v223" -> Resolved223(World, m, rm)
                    [] version = "v250" -> Resolved250(World, m, rm)} :
       SetWorld(next)

\* ctx.inject rejects.
Reject(m, rm) ==
  /\ hm[m].pc = "inject"
  /\ (IF rm THEN TRUE ELSE fails < MaxFails)
  /\ \E next \in {CASE version = "v220" -> Rejected220(World, m, rm)
                    [] version \in {"v221", "v223"} -> Rejected221(World, m, rm)
                    [] version = "v250" -> Rejected250(World, m, rm)} :
       SetWorld(next)

Next220 ==
  \/ \E m \in Msgs, key \in OneKey : Arrive(m, key)
  \/ \E m \in Msgs, shape \in FragShapes : OnStream(m, shape)
  \/ \E t \in BagToSet(tasks), ok, rm \in BOOLEAN : IoDone(t, ok, rm)
  \/ \E m \in Msgs, rm \in BOOLEAN : Resolve(m, rm)
  \/ \E m \in Msgs, rm \in BOOLEAN : Reject(m, rm)

Next221 ==
  \/ \E m \in Msgs, key \in OneKey : Arrive(m, key)
  \/ \E m \in Msgs, shape \in FragShapes : OnStream(m, shape)
  \/ \E sid \in Msgs : FlushTimer(sid)
  \/ \E t \in BagToSet(tasks), ok, rm \in BOOLEAN : IoDone(t, ok, rm)
  \/ \E m \in Msgs, rm \in BOOLEAN : Resolve(m, rm)
  \/ \E m \in Msgs, rm \in BOOLEAN : Reject(m, rm)

Next250 ==
  \/ \E m \in Msgs, key \in OneKey : Arrive(m, key)
  \/ \E m \in Msgs, shape \in FragShapes : OnStream(m, shape)
  \/ \E sid \in Msgs : FlushTimer(sid)
  \/ \E sid \in Msgs : IdleTimer(sid)
  \/ \E t \in BagToSet(tasks), ok, rm \in BOOLEAN : IoDone(t, ok, rm)
  \/ \E m \in Msgs, rm \in BOOLEAN : Resolve(m, rm)
  \/ \E m \in Msgs, rm \in BOOLEAN : Reject(m, rm)

Init220 == Init /\ version = "v220"

Spec220 == Init220 /\ [][Next220]_vars

Init221 == Init /\ version = "v221"

Spec221 == Init221 /\ [][Next221]_vars

Init223 == Init /\ version = "v223"

Spec223 == Init223 /\ [][Next221]_vars

Init250 == Init /\ version = "v250"

Spec250 == Init250 /\ [][Next250]_vars

\* All four versions.
Next == Next250

Spec == Init /\ [][Next]_vars

\* What decides whether a handler ends: every version, both outcomes of inject,
\* failing requests, supersession, fragments that are flushed at once (big) and
\* fragments that wait for a timer (small, head). Left out are the mid fragments,
\* flushed at once like the big ones, and the failing removal of the eyes
\* reaction, after which the handler ends as it does after a removal that worked.
Completion == \E t \in BagToSet(tasks), ok \in BOOLEAN : IoDone(t, ok, TRUE)

Timeout == \E sid \in Msgs : FlushTimer(sid) \/ IdleTimer(sid)

FairNext ==
  \/ \E m \in Msgs, key \in OneKey : Arrive(m, key)
  \/ \E m \in Msgs, shape \in FragShapes \ {"mid"} : OnStream(m, shape)
  \/ Completion
  \/ Timeout
  \/ \E m \in Msgs : Resolve(m, TRUE)
  \/ \E m \in Msgs : Reject(m, TRUE)

\* The event loop does its part: while a request in flight can complete or an
\* armed timer can fire, one of them eventually does. Nothing obliges the users or
\* the assistant host to act.
Fairness == WF_vars(Completion \/ Timeout)

FairSpec == Init /\ [][FairNext]_vars /\ Fairness

\* --------------------------------------------------------------- claims

\* The platform requests in flight.
InFlight == BagToSet(tasks)

RECURSIVE Copies(_)
\* How many requests of the set S are in flight, equal ones counted apart.
Copies(S) ==
  IF S = {} THEN 0
  ELSE LET t == CHOOSE x \in S : TRUE
       IN  CopiesIn(t, tasks) + Copies(S \ {t})

\* The messages stream sid has created and the creations it has in flight.
Creates(sid) ==
  Len(msgs[sid])
    + Copies({t \in InFlight : t.sid = sid /\ t.op.kind \in {"reply", "send"}})

RECURSIVE ReceivedUpTo(_)
\* The characters onStream has delivered for the inbound messages 1..k.
ReceivedUpTo(k) == IF k = 0 THEN 0 ELSE hm[k].recv + ReceivedUpTo(k - 1)

\* The characters of the sequence of strings ss.
CharsOfAll(ss) == UNION {Chars(ss[i]) : i \in 1..Len(ss)}

\* The characters a flush of stream sid that is suspended in a request still
\* carries: in the body in flight, in the text it took from the buffer and in the
\* chunks it has yet to send.
Pending(sid) ==
  UNION {Chars(t.op.body) \cup Chars(t.text) \cup CharsOfAll(t.chunks) :
           t \in {x \in InFlight : x.sid = sid}}

\* The edits in flight against message h of stream sid.
EditsInFlight(sid, h) ==
  Copies({t \in InFlight : t.sid = sid /\ t.op.kind = "edit" /\ t.op.target = h})

\* The body s starts with the thinking prefix.
HasThinkPrefix(s) == s # << >> /\ s[1].c = "balloon"

\* How many terminal indicators (check mark, cross) handleMessage m has issued.
Indicators(m) == Len(SelectSeq(hm[m].term, LAMBDA x : x \in {"ok", "fail"}))

\* handleMessage m has ended, its StreamState is out of the registry and none of
\* its timers is armed.
Terminal(m) ==
  /\ hm[m].pc = "done"
  /\ streams[hm[m].key] # m
  /\ ~st[m].timer
  /\ ~st[m].idleTimer

\* C1: every body the reconciler hands to the platform (reply, channel send or
\* edit) is at most DISCORD_LIMIT characters long, the thinking prefix included.
C1_BodyWithinLimit ==
  \A t \in InFlight : StrLen(t.op.body) <= DISCORD_LIMIT

\* C2: when the fragments delivered hold at most DISCORD_LIMIT characters in all,
\* a stream (v2.5.0) creates one message only: with everything it has created and
\* every creation it has in flight counted, never a second.
C2_SingleMessage ==
  (version = "v250" /\ ReceivedUpTo(MaxMsgs) <= DISCORD_LIMIT) =>
    \A sid \in Msgs : Creates(sid) <= 1

\* C3: no step (v2.2.1, v2.5.0) takes text out of a stream's buffer that is neither
\* displayed by then nor carried by a flush in flight: not the end of a flush that
\* was in flight while a fragment arrived, not a buffer rotation, not a mode
\* transition. Stated for the runs in which no platform request fails.
C3_AcceptedTextRetained ==
  [][(version \in {"v221", "v250"} /\ fails' = 0) =>
       \A sid \in Msgs :
         (Chars(st[sid].buffer) \ Chars(st'[sid].buffer))
           \subseteq (shown'[sid] \cup Pending(sid)')]_vars

\* C4: never are two edits in flight against the same outbound message (v2.2.1,
\* v2.5.0).
C4_OneEditInFlight ==
  version \in {"v221", "v250"} =>
    \A sid \in Msgs : \A h \in 1..Len(msgs[sid]) : EditsInFlight(sid, h) <= 1

\* C5: no timer is armed for a superseded StreamState (v2.2.1, v2.5.0): the timers
\* it had are cancelled when the new stream opens, and none is armed afterwards,
\* so none fires on it.
C5_NoTimerOnSuperseded ==
  \A m \in Msgs :
    (version \in {"v221", "v250"} /\ hm[m].superseded) =>
      ~st[m].timer /\ ~st[m].idleTimer

\* C6: handleMessage never issues two terminal indicators, and when it has ended
\* it has issued exactly one.
C6_OneTerminalIndicator ==
  \A m \in Msgs :
    /\ Indicators(m) <= 1
    /\ hm[m].pc = "done" => Indicators(m) = 1

\* C7: every handleMessage calls inject at most once, and once inject has settled
\* (resolved or rejected) the handler eventually is in its terminal state: ended,
\* its StreamState removed from the registry, no timer of it armed.
C7_InjectOnceThenTerminal ==
  /\ [](\A m \in Msgs : hm[m].inj <= 1)
  /\ \A m \in Msgs : (hm[m].settled # "") ~> Terminal(m)

\* A handler whose inject resolved after its stream had displayed something is in
\* its terminal state.
C7_Witness ==
  \E m \in Msgs : hm[m].settled = "resolved" /\ msgs[m] # << >> /\ Terminal(m)

\* C8: the step that ends handleMessage on the success path (v2.2.1, v2.2.3,
\* v2.5.0) leaves the stream closed: everything in its buffer displayed or in a
\* request in flight, no timer of it armed, its entry out of the registry. Stated
\* for streams that were not superseded and runs in which no platform request
\* fails.
C8_CloseFlushesAll ==
  [][\A m \in Msgs :
       (/\ version \in {"v221", "v223", "v250"}
        /\ hm[m].pc # "done" /\ hm'[m].pc = "done"
        /\ hm'[m].term = <<"ok">>
        /\ ~hm'[m].superseded
        /\ fails' = 0)
       => /\ Chars(st'[m].buffer) \subseteq (shown'[m] \cup Pending(m)')
          /\ ~st'[m].timer /\ ~st'[m].idleTimer
          /\ streams'[hm'[m].key] # m]_vars

\* C9: a stream that is in response mode stays in response mode: the mode changes
\* from thinking to response at most once and never back.
C9_ModeNeverReverts ==
  [][\A m \in Msgs : st[m].mode = "response" => st'[m].mode = "response"]_vars

\* A stream of v2.2.1 in response mode whose buffer holds more than the header
\* fragment that started the response: it took a fragment after the transition.
C9_Witness ==
  \E m \in Msgs :
    version = "v221" /\ st[m].mode = "response" /\ StrLen(st[m].buffer) > 2

\* C10: no request issued while the stream is in response mode carries the
\* thinking prefix (v2.2.1).
C10_NoThinkingPrefixInResponse ==
  version = "v221" =>
    \A t \in InFlight : t.op.resp => ~HasThinkPrefix(t.op.body)

\* A split flush that began in thinking mode, under the prefix, issues a later
\* chunk after the stream has entered response mode.
C10_Witness ==
  \E t \in InFlight : version = "v221" /\ t.pfx /\ t.op.resp

\* C11: the count of characters already pushed to the platform stays within the
\* buffer: 0 <= displayedLength <= buffer.length (2.2.3) and
\* 0 <= sentLength <= buffer.length (2.5.0), in every state of every stream.
C11_DisplayedWithinBuffer ==
  \A sid \in Msgs :
    /\ version = "v223" =>
         0 <= st[sid].displayedLength /\ st[sid].displayedLength <= StrLen(st[sid].buffer)
    /\ version = "v250" =>
         0 <= st[sid].sentLength /\ st[sid].sentLength <= StrLen(st[sid].buffer)

\* C12: a StreamState never has a second deferred-flush timer pending: whenever a
\* timer is armed in the place of another, the other has been cancelled, so none
\* is left pending without a handle.
C12_OneTimerArmed == \A sid \in Msgs : st[sid].leaked = 0

\* Two fragments are in the buffer of a stream that has flushed nothing and whose
\* timer is armed: the second fragment replaced the timer the first had armed.
C12_Witness ==
  \E sid \in Msgs :
    /\ st[sid].timer /\ Chars(st[sid].buffer) = {"a", "b"}
    /\ msgs[sid] = << >> /\ tasks = EmptyBag /\ fails = 0

\* Inbound message m is the only one that has arrived.
Alone(m) == \A k \in Msgs \ {m} : hm[k].pc = "new"

\* C13: a stream (v2.2.1, v2.2.3, v2.5.0) that received DISCORD_LIMIT + 1
\* characters and completed with no request failing has produced exactly two
\* outbound messages, the first DISCORD_LIMIT characters long, the second one
\* character long.
C13_SplitInTwo ==
  \A m \in Msgs :
    (/\ version \in {"v221", "v223", "v250"}
     /\ Alone(m) /\ hm[m].pc = "done" /\ hm[m].settled = "resolved"
     /\ hm[m].recv = DISCORD_LIMIT + 1
     /\ tasks = EmptyBag /\ fails = 0)
    => /\ Len(msgs[m]) = 2
       /\ StrLen(msgs[m][1].body) = DISCORD_LIMIT
       /\ StrLen(msgs[m][2].body) = 1

\* ------------------------------------------------- the chunker on its own

\* The characters of the texts the chunker is given.
SplitAlphabet == {"a", " ", "\n"}

RECURSIVE FromChars(_)
\* The string with the characters cs.
FromChars(cs) ==
  IF cs = << >> THEN EmptyStr ELSE Concat(Rep(Head(cs), 1), FromChars(Tail(cs)))

SplitTexts ==
  {FromChars(cs) : cs \in UNION {[1..n -> SplitAlphabet] : n \in 0..MaxSplitText}}

\* Iterations after which a loop that has not ended is left alone.
MaxIter == MaxSplitText + 1

\* A call fn(text, maxLen) at its entry; fn is splitMessage (2.2.1, 2.2.3) or
\* chunkMessage (2.2.0).
InitChunker ==
  /\ InitStreams
  /\ version = "v221"
  /\ config = NoRequests
  /\ pairing = IdlePairing
  /\ gate = IdleGate
  /\ relay = IdleRelay
  /\ \E fn \in {"splitMessage", "chunkMessage"}, text \in SplitTexts,
        maxLen \in 0..MaxSplitLen :
       split = [pc |-> "call", fn |-> fn, text |-> text, maxLen |-> maxLen,
                remaining |-> EmptyStr, chunks |-> << >>]

\* if (text.length <= maxLen) return [text]; const chunks = []; let remaining = text
SplitEnter ==
  /\ split.pc = "call"
  /\ split' = IF StrLen(split.text) <= split.maxLen
              THEN [split EXCEPT !.pc = "done", !.chunks = <<split.text>>]
              ELSE [split EXCEPT !.pc = "loop", !.remaining = split.text]
  /\ UNCHANGED <<version, streams, st, hm, tasks, msgs, shown, fails, nfrag, nbig,
                 config, pairing, gate, relay>>

\* One pass through while (remaining.length > 0) { ... }.
SplitIterate ==
  /\ split.pc = "loop"
  /\ Len(split.chunks) < MaxIter
  /\ \E bp \in {IF split.fn = "splitMessage"
                 THEN SplitBreakPoint(split.remaining, split.maxLen)
                 ELSE ChunkBreakPoint(split.remaining, split.maxLen)} :
       split' = IF StrLen(split.remaining) = 0
                THEN [split EXCEPT !.pc = "done"]
                ELSE IF StrLen(split.remaining) <= split.maxLen
                THEN [split EXCEPT !.pc = "done", !.chunks = Append(@, split.remaining)]
                ELSE [split EXCEPT !.chunks = Append(@, Take(split.remaining, bp)),
                                   !.remaining = Trim(Drop(split.remaining, bp))]
  /\ UNCHANGED <<version, streams, st, hm, tasks, msgs, shown, fails, nfrag, nbig,
                 config, pairing, gate, relay>>

NextChunker == SplitEnter \/ SplitIterate

ChunkerSpec == InitChunker /\ [][NextChunker]_vars

RECURSIVE JoinWith(_, _)
\* The segments of chunks joined with the character ch between them.
JoinWith(chunks, ch) ==
  IF chunks = << >> THEN EmptyStr
  ELSE IF Len(chunks) = 1 THEN chunks[1]
  ELSE Concat(Concat(chunks[1], Rep(ch, 1)), JoinWith(Tail(chunks), ch))

\* C14: for maxLen >= 1 every segment splitMessage and chunkMessage produce is at
\* most maxLen characters long.
C14_SegmentsWithinMaxLen ==
  split.maxLen >= 1 =>
    \A i \in 1..Len(split.chunks) : StrLen(split.chunks[i]) <= split.maxLen

\* A call has returned three segments or more, one of them cut at a space or a
\* line break.
C14_Witness ==
  /\ split.pc = "done" /\ split.maxLen >= 2 /\ Len(split.chunks) >= 3
  /\ \E i \in 1..Len(split.chunks) : StrLen(split.chunks[i]) < split.maxLen
  /\ Chars(split.text) = SplitAlphabet

\* C15: for maxLen >= 1 the segments of splitMessage, joined with one boundary
\* character between them, are the text again.
C15_RoundTrip ==
  (split.pc = "done" /\ split.fn = "splitMessage" /\ split.maxLen >= 1) =>
    \E ch \in SplitAlphabet : JoinWith(split.chunks, ch) = split.text

\* C16: the loop is entered only with maxLen >= 1, and every iteration that does
\* not end it leaves remaining at least one character shorter.
C16_SplitTerminates ==
  [][split.pc = "loop" =>
       /\ split.maxLen >= 1
       /\ split'.pc = "loop" => StrLen(split'.remaining) < StrLen(split.remaining)]_vars

\* C17: once a stream (v2.2.3) is complete its buffer is not modified and its
\* timer is not armed again, whichever handler takes the step.
C17_CompleteIsFinal ==
  [][\A sid \in Msgs :
       (version = "v223" /\ st[sid].isComplete) =>
         /\ st'[sid].buffer = st[sid].buffer
         /\ st'[sid].timer => st[sid].timer]_vars

\* C18: a handler (v2.2.1, v2.5.0) whose inject resolved issues neither the
\* failure reaction nor the error reply, whatever platform request of a flush
\* failed.
C18_FlushFailureContained ==
  \A m \in Msgs :
    (version \in {"v221", "v250"} /\ hm[m].settled = "resolved") =>
      \A i \in 1..Len(hm[m].term) : hm[m].term[i] \notin {"fail", "reply"}

\* C19: a handler (v2.2.1, v2.2.3, v2.5.0) whose inject rejected leaves no timer
\* of its stream armed and its StreamState out of the registry, never issues the
\* success reaction, and ends having issued the failure reaction and then the
\* error reply.
C19_RejectCleansUp ==
  \A m \in Msgs :
    (version # "v220" /\ hm[m].settled = "rejected") =>
      /\ ~st[m].timer
      /\ ~st[m].idleTimer
      /\ streams[hm[m].key] # m
      /\ hm[m].term = <<"fail", "reply">>

\* ------------------------------------------------- pairing (src/index.js)

\* Object.entries(config.pairingRequests).find(([_, req]) => req.userId ===
\* userId && req.status === "pending"), searched from entry i on: the position of
\* the first such entry, 0 for undefined.
RECURSIVE FindPending(_, _, _)
FindPending(reqs, userId, i) ==
  IF i > Len(reqs) THEN 0
  ELSE IF reqs[i].userId = userId /\ reqs[i].status = "pending" THEN i
  ELSE FindPending(reqs, userId, i + 1)

\* config.pairingRequests[code] = req: an entry under the same code is replaced
\* where it stands, a new code is added at the end.
PutRequest(reqs, code, req) ==
  IF \E i \in 1..Len(reqs) : reqs[i].code = code
  THEN [i \in 1..Len(reqs) |-> IF reqs[i].code = code THEN req ELSE reqs[i]]
  ELSE Append(reqs, req)

\* What a call leaves in the record of calls: ret is its return value.
Called(p, userId, ret) ==
  [p EXCEPT !.calls = @ + 1, !.caller = userId, !.ret = ret,
            !.issued[userId] = ret.code]

\* A faulty variant of createPairingRequest: it does not look for a pending
\* request of the user and generates a code on every call.
createPairingRequestFresh(cfg, p, userId, code) ==
  [config |-> [cfg EXCEPT !.pairingRequests =
                 PutRequest(@, code, [code |-> code, userId |-> userId,
                                      status |-> "pending"])],
   pairing |-> Called([p EXCEPT !.minted = @ + 1, !.saves = @ + 1], userId,
                      [code |-> code, existing |-> FALSE])]

\* createPairingRequest(userId, ...) on configuration cfg; code is what
\* generatePairingCode() returns if it is called (eight random characters: any
\* code, one in use included). ctx.getConfig() yields the configuration and
\* ctx.saveConfig(config) stores it. Yields the configuration and the record of
\* calls after the call.
createPairingRequest(cfg, p, userId, code) ==
  LET existing == FindPending(cfg.pairingRequests, userId, 1)
  IN  IF existing # 0
      THEN [config |-> cfg,
            pairing |-> Called(p, userId,
                               [code |-> cfg.pairingRequests[existing].code,
                                existing |-> TRUE])]
      ELSE [config |-> [cfg EXCEPT !.pairingRequests =
                          PutRequest(@, code, [code |-> code, userId |-> userId,
                                               status |-> "pending"])],
            pairing |-> Called([p EXCEPT !.minted = @ + 1, !.saves = @ + 1], userId,
                               [code |-> code, existing |-> FALSE])]

\* A user without access addresses the bot: one call of createPairingRequest.
PairingTrigger(userId, code) ==
  /\ pairing.calls < MaxTriggers
  /\ \E next \in {createPairingRequest(config, pairing, userId, code)} :
       /\ config' = next.config
       /\ pairing' = next.pairing
  /\ UNCHANGED <<version, streams, st, hm, tasks, msgs, shown, fails, nfrag, nbig, split,
                 gate, relay>>

\* The owner approves or rejects the pending request at position i
\* (`wopr discord pair approve|reject CODE`): its status changes, nothing else.
PairingDecide(i, status) ==
  /\ i \in 1..Len(config.pairingRequests)
  /\ config.pairingRequests[i].status = "pending"
  /\ config' = [config EXCEPT !.pairingRequests[i].status = status]
  /\ UNCHANGED <<version, streams, st, hm, tasks, msgs, shown, fails, nfrag, nbig, split,
                 pairing, gate, relay>>

\* src/index.js on its own: no stream is open.
InitPairing ==
  /\ version = "js"
  /\ NoStreams
  /\ split = IdleSplit
  /\ config = NoRequests
  /\ pairing = IdlePairing
  /\ gate = IdleGate
  /\ relay = IdleRelay

NextPairing ==
  \/ \E userId \in Users, code \in Codes : PairingTrigger(userId, code)
  \/ \E i \in 1..MaxCodes, status \in {"approved", "rejected"} : PairingDecide(i, status)

PairingSpec == InitPairing /\ [][NextPairing]_vars

\* The code of the pending request of user u in the configuration, 0 for none.
PendingCode(u) ==
  LET existing == FindPending(config.pairingRequests, u, 1)
  IN  IF existing = 0 THEN 0 ELSE config.pairingRequests[existing].code

\* C20: a call of createPairingRequest by a user whose request is pending in the
\* configuration returns the code of that request, which is the code the user's
\* previous call returned; it generates no code, leaves the configuration as it
\* is (no entry added) and does not save it.
C20_IdempotentPairing ==
  [][\A u \in Users :
       (pairing'.calls = pairing.calls + 1 /\ pairing'.caller = u /\ PendingCode(u) # 0) =>
         /\ pairing'.ret.code = PendingCode(u)
         /\ pairing'.ret.code = pairing.issued[u]
         /\ pairing'.ret.existing
         /\ pairing'.minted = pairing.minted
         /\ config' = config
         /\ pairing'.saves = pairing.saves]_vars

\* A second call of a user found the pending request, with a request of the
\* other user in the configuration, after the owner had decided an earlier one.
C20_Witness ==
  /\ pairing.ret.existing
  /\ pairing.calls > pairing.minted
  /\ Len(config.pairingRequests) = MaxCodes
  /\ \E i \in 1..Len(config.pairingRequests) :
       /\ config.pairingRequests[i].userId # pairing.caller
       /\ config.pairingRequests[i].status # "pending"
  /\ PendingCode(pairing.caller) = pairing.ret.code

\* ------------------------------------------- message handling (src/index.js)

\* getSessionForChannel(channelId, channel) on configuration cfg; channel is
\* whether the channel argument is given. Yields the session name (NoSession for
\* null), the configuration after the call and whether ctx.saveConfig was called.
getSessionForChannel(cfg, channelId, channel) ==
  IF cfg.mappings[channelId] # NoSession
  THEN [session |-> cfg.mappings[channelId], config |-> cfg, saved |-> FALSE]
  ELSE IF channel
  THEN [session |-> AutoName(channelId),
        config |-> [cfg EXCEPT !.mappings[channelId] = AutoName(channelId)],
        saved |-> TRUE]
  ELSE [session |-> NoSession, config |-> cfg, saved |-> FALSE]

\* handleMessage(message) for a message of a user (not a bot) that mentions the
\* bot or is a direct message, up to its call of ctx.inject: the session of the
\* channel is resolved; without one the handler replies "No session configured
\* for this channel." and returns; else ensureSessionExists writes the context
\* file of the session if there is none, and ctx.inject is called.
HandleMessageJs(author, channelId) ==
  /\ gate.handled < MaxHandled
  /\ \E r \in {getSessionForChannel(config, channelId, TRUE)} :
       /\ config' = r.config
       /\ gate' = [handled |-> gate.handled + 1,
                   author |-> author,
                   channel |-> channelId,
                   session |-> r.session,
                   injected |-> r.session # NoSession,
                   saves |-> gate.saves + (IF r.saved THEN 1 ELSE 0),
                   files |-> IF r.session # NoSession
                             THEN gate.files \cup {r.session} ELSE gate.files]
  /\ UNCHANGED <<version, streams, st, hm, tasks, msgs, shown, fails, nfrag, nbig, split,
                 pairing, relay>>

\* The owner's commands change one field of the configuration each.
OwnerSets(cfg) ==
  /\ config' = cfg
  /\ cfg # config
  /\ UNCHANGED <<version, streams, st, hm, tasks, msgs, shown, fails, nfrag, nbig, split,
                 pairing, gate, relay>>

\* `wopr discord access all|paired|none`
OwnerAccess(policy) == OwnerSets([config EXCEPT !.defaultAccess = policy])

\* `wopr discord auto on|off`
OwnerAuto(on) == OwnerSets([config EXCEPT !.autoCreate = on])

\* `wopr discord map <channel> mybot`
OwnerMap(channelId) == OwnerSets([config EXCEPT !.mappings[channelId] = Named])

\* `wopr discord grant <user> <session>`
OwnerGrant(userId, session) ==
  OwnerSets([config EXCEPT !.users[userId].sessions = @ \cup {session}])

\* `wopr discord block <user>`, `wopr discord unblock <user>`
OwnerBlock(userId, blocked) == OwnerSets([config EXCEPT !.users[userId].blocked = blocked])

NextGate ==
  \/ \E author \in Users, channelId \in Channels : HandleMessageJs(author, channelId)
  \/ \E policy \in {"all", "paired", "none"} : OwnerAccess(policy)
  \/ \E on \in BOOLEAN : OwnerAuto(on)
  \/ \E channelId \in Channels : OwnerMap(channelId)
  \/ \E userId \in Users, session \in Sessions : OwnerGrant(userId, session)
  \/ \E userId \in Users, blocked \in BOOLEAN : OwnerBlock(userId, blocked)

GateSpec == InitPairing /\ [][NextGate]_vars

\* The access gate as the policies describe it: may userId use session under cfg.
Allowed(cfg, userId, session) ==
  CASE cfg.defaultAccess = "all" -> TRUE
    [] cfg.defaultAccess = "paired" ->
         session \in cfg.users[userId].sessions /\ ~cfg.users[userId].blocked
    [] cfg.defaultAccess = "none" ->
         session \in cfg.users[userId].sessions /\ ~cfg.users[userId].blocked

\* C21: a run of handleMessage (src/index.js) calls ctx.inject only for an author
\* the access policy allows on the session: anyone under `all`, under `paired`
\* and `none` only a user who is not blocked and has a grant for the session.
C21_AccessGate ==
  [][(gate'.handled = gate.handled + 1 /\ gate'.injected) =>
       Allowed(config, gate'.author, gate'.session)]_vars

\* C22: a run of handleMessage resolves the session of its channel as
\* resolveSession is described: the mapped name when the channel is mapped, with
\* nothing saved; with no mapping and auto-create on, the name derived from the
\* channel id, which is saved as the mapping of the channel and of no other; with
\* no mapping and auto-create off, none, with nothing saved and no inject.
C22_ResolveSession ==
  [][gate'.handled = gate.handled + 1 =>
       LET c == gate'.channel
           mapped == config.mappings[c] # NoSession
       IN  /\ mapped =>
                /\ gate'.session = config.mappings[c]
                /\ config' = config
                /\ gate'.saves = gate.saves
           /\ (~mapped /\ config.autoCreate) =>
                /\ gate'.session = AutoName(c)
                /\ config' = [config EXCEPT !.mappings[c] = AutoName(c)]
                /\ gate'.saves = gate.saves + 1
           /\ (~mapped /\ ~config.autoCreate) =>
                /\ gate'.session = NoSession
                /\ ~gate'.injected
                /\ config' = config
                /\ gate'.saves = gate.saves]_vars

\* ------------------------------------------------------- several channels

\* How many copies of invocation t the bag b holds.
CopiesOf(t, b) == IF t \in BagToSet(b) THEN CopiesIn(t, b) ELSE 0

\* All four versions, the inbound messages on any of the channels.
NextSessions ==
  \/ \E m \in Msgs, key \in Keys : Arrive(m, key)
  \/ \E m \in Msgs, shape \in FragShapes : OnStream(m, shape)
  \/ \E sid \in Msgs : FlushTimer(sid)
  \/ \E sid \in Msgs : IdleTimer(sid)
  \/ \E t \in BagToSet(tasks), ok, rm \in BOOLEAN : IoDone(t, ok, rm)
  \/ \E m \in Msgs, rm \in BOOLEAN : Resolve(m, rm)
  \/ \E m \in Msgs, rm \in BOOLEAN : Reject(m, rm)

SessionsSpec == Init /\ [][NextSessions]_vars

\* C23: every step works on one session key: the StreamStates opened for the
\* other keys, the registrations of the other keys, the messages of their
\* streams and the requests in flight for them are what they were before.
C23_SessionIndependence ==
  [][\E key \in Keys :
       /\ \A k \in Keys \ {key} : streams'[k] = streams[k]
       /\ \A sid \in Msgs :
            (hm[sid].pc # "new" /\ hm[sid].key # key) =>
              /\ st'[sid] = st[sid]
              /\ msgs'[sid] = msgs[sid]
              /\ hm'[sid] = hm[sid]
              /\ \A t \in BagToSet(tasks) \cup BagToSet(tasks') :
                   t.sid = sid => CopiesOf(t, tasks') = CopiesOf(t, tasks)]_vars

\* Two streams are open on two channels: the first has created a message, the
\* second has text in its buffer and a timer armed.
C23_Witness ==
  /\ hm[1].key # hm[2].key
  /\ hm[1].pc = "inject" /\ hm[2].pc = "inject"
  /\ msgs[1] # << >>
  /\ st[2].buffer # EmptyStr
  /\ st[2].timer

\* C24: once a stream (v2.2.1, v2.2.3) is superseded no step issues a request
\* (reply, send or edit) for it any more.
C24_SupersededAbandoned ==
  [][\A sid \in Msgs :
       (version \in {"v221", "v223"} /\ hm[sid].superseded) =>
         \A t \in BagToSet(tasks') :
           t.sid = sid => CopiesOf(t, tasks') <= CopiesOf(t, tasks)]_vars

\* C25: in a stream (v2.2.1, v2.5.0) one of whose messages is a full chunk of a
\* split flush (DISCORD_LIMIT long), no step replaces text a message displays:
\* the characters of every message are still in it after the step.
C25_SplitRetiresHandle ==
  [][\A sid \in Msgs :
       (/\ version \in {"v221", "v250"}
        /\ \E i \in 1..Len(msgs[sid]) : StrLen(msgs[sid][i].body) = DISCORD_LIMIT) =>
         \A i \in 1..Len(msgs[sid]) :
           Chars(msgs[sid][i].body) \subseteq Chars(msgs'[sid][i].body)]_vars

\* C26: of the messages a stream (v2.2.1, v2.5.0) has created, the first is a
\* reply to the inbound message and every later one a plain channel send.
C26_FirstIsReply ==
  \A sid \in Msgs :
    version \in {"v221", "v250"} =>
      \A i \in 1..Len(msgs[sid]) :
        msgs[sid][i].kind = IF i = 1 THEN "reply" ELSE "send"

\* C27: when a request of a flush that is not the final one fails (v2.2.1,
\* v2.5.0), the text it carried is still in the buffer, in another flush under
\* way or already displayed, and after a failed edit the state no longer refers
\* to the edited message, so that the next flush creates a message.
C27_FailedFlushRetried ==
  [][\A t \in BagToSet(tasks) :
       (/\ version \in {"v221", "v250"}
        /\ t.cont # "final"
        /\ CopiesOf(t, tasks') < CopiesOf(t, tasks)
        /\ fails' = fails + 1) =>
         /\ (Chars(t.op.body) \ Chars(THINK_PREFIX)) \subseteq
              (Chars(st'[t.sid].buffer) \cup shown'[t.sid] \cup Pending(t.sid)')
         /\ t.op.kind = "edit" =>
              t.op.target \notin {st'[t.sid].thinkingMsg, st'[t.sid].responseMsg,
                                  st'[t.sid].message}]_vars

\* The letters of the text s that stand right after a "#": the fragments "#x".
HeadsIn(s) == {s[k + 1].c : k \in {j \in 1..(Len(s) - 1) : s[j].c = "#"}}

\* The texts of stream sid: its buffer, the bodies of its messages, and what the
\* invocations suspended for it carry (request body, fragment, text, chunks).
TextsOf(sid) ==
  {st[sid].buffer} \cup {msgs[sid][i].body : i \in 1..Len(msgs[sid])}
    \cup UNION {{t.op.body, t.frag, t.text} \cup {t.chunks[i] : i \in 1..Len(t.chunks)} :
                 t \in {x \in InFlight : x.sid = sid}}

\* The bodies stream sid has displayed or has handed to the platform.
BodiesOf(sid) ==
  {msgs[sid][i].body : i \in 1..Len(msgs[sid])}
    \cup {t.op.body : t \in {x \in InFlight : x.sid = sid /\ x.op.kind # "none"}}

\* C28: in a stream of v2.2.1 that is alone on its channel, with h the first
\* fragment of the form "#x" (the response start): a body with the thinking
\* prefix holds no text of fragment h or of a later one, and a body without it
\* holds no text of a fragment before h (of any fragment, when there is no h).
C28_NoRelabel ==
  \A sid \in Msgs :
    (version = "v221" /\ Alone(sid)) =>
      LET heads == {i \in 1..nfrag :
                      \E s \in TextsOf(sid) : LetterOf(i) \in HeadsIn(s)}
          before == {LetterOf(i) : i \in {j \in 1..nfrag : \A h \in heads : j < h}}
          after == {LetterOf(i) : i \in {j \in 1..nfrag : \E h \in heads : j >= h}}
      IN  \A b \in BodiesOf(sid) :
            IF HasThinkPrefix(b) THEN Chars(b) \cap after = {}
                                 ELSE Chars(b) \cap before = {}

\* ------------------------------------------------- one stream, more fragments

\* Fragments the one inject call of such a run emits.
MaxSoloFrags == 3

\* onStream in the runs with one inbound message: up to MaxSoloFrags fragments.
OnStreamSolo(m, shape) ==
  /\ hm[m].pc = "inject"
  /\ nfrag < MaxSoloFrags
  /\ OnFragment(m, shape)

\* One inbound message in versions 2.2.1 and 2.2.3, the two whose handleStream
\* awaits a flush before it appends a response start.
InitOrder == Init /\ version \in {"v221", "v223"}

NextOrder ==
  \/ Arrive(1, 1)
  \/ \E shape \in {"small", "head"} : OnStreamSolo(1, shape)
  \/ FlushTimer(1)
  \/ \E t \in BagToSet(tasks), ok, rm \in BOOLEAN : IoDone(t, ok, rm)
  \/ \E rm \in BOOLEAN : Resolve(1, rm)
  \/ \E rm \in BOOLEAN : Reject(1, rm)

OrderSpec == InitOrder /\ [][NextOrder]_vars

\* C29: in versions 2.2.1 and 2.2.3 the letters of the buffer of a stream stand
\* in the order in which onStream delivered their fragments.
C29_ArrivalOrder ==
  \A sid \in Msgs :
    version \in {"v221", "v223"} =>
      LET buf == st[sid].buffer
          at == {k \in 1..Len(buf) : buf[k].c \in Lower}
          nth(c) == CHOOSE i \in 1..26 : Alphabet[i] = c
      IN  \A j, k \in at : j < k => nth(buf[j].c) <= nth(buf[k].c)

\* ------------------------------------------------- flush now or flush later

\* Fragments without and with a natural break, under and over the thresholds.
BreakShapes == {"small", "stop", "para", "mid"}

\* One inbound message in versions 2.2.3 and 2.5.0, the two that count the
\* characters not displayed yet.
InitBreak == Init /\ version \in {"v223", "v250"}

NextBreak ==
  \/ Arrive(1, 1)
  \/ \E shape \in BreakShapes : OnStreamSolo(1, shape)
  \/ FlushTimer(1)
  \/ IdleTimer(1)
  \/ \E t \in BagToSet(tasks), ok, rm \in BOOLEAN : IoDone(t, ok, rm)
  \/ \E rm \in BOOLEAN : Resolve(1, rm)
  \/ \E rm \in BOOLEAN : Reject(1, rm)

BreakSpec == InitBreak /\ [][NextBreak]_vars

\* C30: when versions 2.2.3 and 2.5.0 buffer a fragment for a registered stream
\* that is not complete, the handler starts a flush in the same run exactly when
\* the length not displayed yet (buffer length minus displayedLength, sentLength
\* in 2.5.0) has reached 800, or the fragment has a natural break and that
\* length exceeds 100; when it starts none, the flush timer is armed afterwards
\* and no timer armed before is left pending without a handle.
C30_FlushOrDefer ==
  [][\A shape \in BreakShapes :
       (/\ OnStreamSolo(1, shape)
        /\ streams[hm[1].key] # 0
        /\ ~st[streams[hm[1].key]].isComplete) =>
         LET sid == streams[hm[1].key]
             text == FragText(nfrag + 1, shape)
             s == st'[sid]
             unflushed == StrLen(s.buffer)
                            - (IF version = "v250" THEN s.sentLength ELSE s.displayedLength)
             due == \/ unflushed >= EDIT_COALESCE_CHARS
                    \/ hasNaturalBreak(text) /\ unflushed > NATURAL_BREAK_FLOOR
             started == \E t \in BagToSet(tasks') :
                          /\ t.sid = sid /\ t.cont = "frag"
                          /\ CopiesOf(t, tasks') > CopiesOf(t, tasks)
         IN  /\ due <=> started
             /\ ~started => (s.timer /\ s.leaked = st[sid].leaked)]_vars

\* ------------------------------------------------------- where a cut falls

RECURSIVE CharAt(_, _)
\* The character at 0-based position p of s (p < s.length).
CharAt(s, p) == IF p < Head(s).n THEN Head(s).c ELSE CharAt(Tail(s), p - Head(s).n)

\* The largest member of the set of positions S that lies in the back half of the
\* window (2 * p >= maxLen), or -1.
BackHalf(S, maxLen) ==
  LET ok == {p \in S : 2 * p >= maxLen}
  IN  IF ok = {} THEN -1 ELSE SetMax(ok)

\* The cut the rule of the claim prescribes in s (longer than maxLen): the last
\* double newline at or before maxLen if the last one is in the back half, else
\* the last newline on the same terms, else the last space, else maxLen.
PrescribedCut(s, maxLen) ==
  LET has(p, ch) == p < StrLen(s) /\ CharAt(s, p) = ch
      pairs == {p \in 0..maxLen : has(p, "\n") /\ has(p + 1, "\n")}
      lines == {p \in 0..maxLen : has(p, "\n")}
      blanks == {p \in 0..maxLen : has(p, " ")}
      last(S) == IF S = {} THEN {} ELSE {SetMax(S)}
  IN  IF BackHalf(last(pairs), maxLen) >= 0 THEN BackHalf(last(pairs), maxLen)
      ELSE IF BackHalf(last(lines), maxLen) >= 0 THEN BackHalf(last(lines), maxLen)
      ELSE IF BackHalf(last(blanks), maxLen) >= 0 THEN BackHalf(last(blanks), maxLen)
      ELSE maxLen

\* C31: a pass of the loop of splitMessage or chunkMessage over a remaining text
\* longer than maxLen appends the segment that ends at the prescribed cut, and
\* what remains afterwards does not start with whitespace.
C31_CutPriority ==
  [][(split.pc = "loop" /\ StrLen(split.remaining) > split.maxLen) =>
       /\ split'.chunks =
            Append(split.chunks,
                   Take(split.remaining, PrescribedCut(split.remaining, split.maxLen)))
       /\ split'.remaining # EmptyStr => split'.remaining[1].c \notin WS]_vars

\* ------------------------------------------ the start of handleMessage

\* handleMessage(m) for a message it does not answer: one authored by a bot
\* (`if (message.author.bot) return`), or one that neither mentions the bot nor
\* is a direct message. Versions 2.2.0 to 2.2.3 return after ctx.logMessage,
\* version 2.5.0 returns before it.
Unanswered(m, bot) ==
  /\ CanArrive(m)
  /\ \E next \in {[World EXCEPT !.hm[m].pc = IF bot THEN "ignored" ELSE "dropped",
                                  !.hm[m].logged = ~bot /\ version # "v250"]} :
       SetWorld(next)

\* handleMessage(m) for a message that addresses the bot on channel key, up to
\* `await message.react(eyes)`.
Receive(m, key) ==
  /\ CanArrive(m)
  /\ \E next \in {[Addressed(World, m, "asked") EXCEPT !.hm[m].pc = "react",
                                                       !.hm[m].key = key]} :
       SetWorld(next)

\* The eyes reaction of m is added (ok) or the call rejects into the empty catch;
\* handleMessage goes on to `await ctx.inject(...)`.
Reacted(m, ok) ==
  /\ hm[m].pc = "react"
  /\ \E next \in {OpenStream([World EXCEPT !.hm[m].eyes = IF ok THEN "shown" ELSE "failed"],
                              m, hm[m].key)} :
       SetWorld(next)

NextInbound ==
  \/ \E m \in Msgs, bot \in BOOLEAN : Unanswered(m, bot)
  \/ \E m \in Msgs, key \in OneKey : Receive(m, key)
  \/ \E m \in Msgs, ok \in BOOLEAN : Reacted(m, ok)
  \/ \E m \in Msgs : OnStream(m, "small")
  \/ Completion
  \/ Timeout
  \/ \E m \in Msgs : Resolve(m, TRUE)
  \/ \E m \in Msgs : Reject(m, TRUE)

InboundSpec == Init /\ [][NextInbound]_vars

\* The event loop and the assistant host do their part, the platform does its
\* part for sends and edits; nothing obliges it to answer the call that adds the
\* eyes reaction.
FairInboundSpec ==
  /\ InboundSpec
  /\ Fairness
  /\ WF_vars(\E m \in Msgs : Resolve(m, TRUE))

\* C32: in versions 2.2.1 and 2.5.0 a message authored by a bot leaves no trace
\* at all; a message that does not address the bot is logged and leaves no other
\* trace: no reaction, no StreamState, no call of inject.
C32_UnaddressedOnlyLogged ==
  \A m \in Msgs :
    (version \in {"v221", "v250"} /\ hm[m].pc \in {"ignored", "dropped"}) =>
      /\ hm[m].logged <=> (hm[m].pc = "dropped")
      /\ hm[m].eyes = "" /\ hm[m].term = << >>
      /\ hm[m].inj = 0
      /\ st[m] = NewState /\ msgs[m] = << >>
      /\ \A k \in Keys : streams[k] # m

\* C33: in versions 2.2.1 and 2.5.0 a handler that awaits the eyes reaction goes
\* on to call inject, whether or not the reaction call ever completes.
C33_ReactionsBestEffort ==
  \A m \in Msgs :
    (version \in {"v221", "v250"} /\ hm[m].pc = "react") ~> (hm[m].inj > 0)

\* C34: in version 2.5.0, when the only inject call is pending and no stream is
\* registered for its key (the idle timer has fired), a fragment that arrives is
\* kept: its text is in the buffer of a StreamState or in a request under way.
C34_IdleKeepsTokens ==
  [][\A m \in Msgs :
       (/\ version = "v250" /\ Alone(m) /\ hm[m].pc = "inject"
        /\ streams[hm[m].key] = 0
        /\ hm'[m].recv > hm[m].recv) =>
         LetterOf(nfrag') \in
           UNION {Chars(st'[sid].buffer) : sid \in Msgs}
             \cup UNION {Chars(t.op.body) : t \in BagToSet(tasks')}]_vars

\* C35: a call of createPairingRequest leaves every entry of
\* config.pairingRequests as it was, whatever code generatePairingCode returns:
\* entries are only added.
C35_RequestsNeverOverwritten ==
  [][pairing'.calls = pairing.calls + 1 =>
       /\ Len(config'.pairingRequests) >= Len(config.pairingRequests)
       /\ \A i \in 1..Len(config.pairingRequests) :
            config'.pairingRequests[i] = config.pairingRequests[i]]_vars

\* ------------------------------------- the non-editing handler of index.js

\* `responseText.length > 1800`, `responseText.slice(0, 1800)`
RELAY_SLICE == 1800

\* Chunks the inject call of a run emits.
MaxRelayChunks == 3

\* The lengths of the chunks: one character, just under and just over a slice,
\* and two slices and a message and a character more.
RelaySizes == {1, RELAY_SLICE - 1, RELAY_SLICE + 1, 2 * RELAY_SLICE + 1}

\* "Error processing your request.".length
ERROR_REPLY_LEN == 30

\* handleMessage of src/index.js reaches `await ctx.inject(...)`.
RelayStart ==
  /\ relay.pc = "idle"
  /\ relay' = [relay EXCEPT !.pc = "inject"]
  /\ UNCHANGED <<version, streams, st, hm, tasks, msgs, shown, fails, nfrag, nbig, split,
                 config, pairing, gate>>

\* The callback of ctx.inject with a text chunk of n characters, up to its await:
\* the chunk is added to responseText, and once more than RELAY_SLICE characters
\* are held the first RELAY_SLICE of them are sent, as a reply the first time.
RelayChunk(n) ==
  /\ relay.pc = "inject"
  /\ relay.chunks < MaxRelayChunks
  /\ LET responseText == relay.responseText + n
     IN  relay' = IF responseText > RELAY_SLICE
                  THEN [relay EXCEPT !.chunks = @ + 1,
                                     !.responseText = responseText - RELAY_SLICE,
                                     !.replyMessage = TRUE,
                                     !.sent = Append(@, RELAY_SLICE)]
                  ELSE [relay EXCEPT !.chunks = @ + 1, !.responseText = responseText]
  /\ UNCHANGED <<version, streams, st, hm, tasks, msgs, shown, fails, nfrag, nbig, split,
                 config, pairing, gate>>

\* ctx.inject resolves: what responseText holds is sent, as a reply if nothing
\* was sent before (the text has no mention to format and is not blank).
RelayResolve ==
  /\ relay.pc = "inject"
  /\ relay' = [relay EXCEPT !.pc = "done",
                            !.sent = IF relay.responseText > 0
                                     THEN Append(@, relay.responseText) ELSE @]
  /\ UNCHANGED <<version, streams, st, hm, tasks, msgs, shown, fails, nfrag, nbig, split,
                 config, pairing, gate>>

\* ctx.inject rejects: the catch block replies with the error text.
RelayReject ==
  /\ relay.pc = "inject"
  /\ relay' = [relay EXCEPT !.pc = "done", !.sent = Append(@, ERROR_REPLY_LEN)]
  /\ UNCHANGED <<version, streams, st, hm, tasks, msgs, shown, fails, nfrag, nbig, split,
                 config, pairing, gate>>

NextRelay ==
  \/ RelayStart
  \/ \E n \in RelaySizes : RelayChunk(n)
  \/ RelayResolve
  \/ RelayReject

RelaySpec == InitPairing /\ [][NextRelay]_vars

\* C36: every message the non-editing handler of index.js sends is at most
\* DISCORD_LIMIT characters long.
C36_RelayWithinLimit ==
  \A i \in 1..Len(relay.sent) : relay.sent[i] <= DISCORD_LIMIT

\* C37: in versions 2.2.1, 2.2.3 and 2.5.0, a step in which handleMessage m goes
\* on after its inject settled (to its final flush or to its end), while the
\* stream registered for its key is the one a later message m2 created, leaves
\* that stream registered, leaves its timers as they are and starts no final
\* flush of it.
C37_EarlierSettlementSparesLater ==
  [][\A m, m2 \in Msgs :
       (/\ version \in {"v221", "v223", "v250"}
        /\ m # m2
        /\ hm[m].pc \in {"inject", "final"} /\ hm'[m].pc \in {"final", "done"}
        /\ hm'[m].pc # hm[m].pc
        /\ streams[hm[m].key] = m2) =>
         /\ streams'[hm[m].key] = m2
         /\ st'[m2].timer = st[m2].timer
         /\ st'[m2].idleTimer = st[m2].idleTimer
         /\ \A t \in BagToSet(tasks') :
              (t.sid = m2 /\ t.cont = "final") => CopiesOf(t, tasks') <= CopiesOf(t, tasks)]_vars

\* C38: in versions 2.2.1 and 2.5.0, a fragment that onStream of inject call m
\* delivers reaches no StreamState but the one opened for m: after the step its
\* text is neither in the buffer of another state nor carried by an invocation
\* suspended for another state.
C38_OwnFragmentsOnly ==
  [][\A m \in Msgs :
       (version \in {"v221", "v250"} /\ hm'[m].recv > hm[m].recv) =>
         \A sid \in Msgs \ {m} :
           LetterOf(nfrag') \notin
             Chars(st'[sid].buffer)
               \cup UNION {Chars(t.op.body) \cup Chars(t.frag) :
                             t \in {x \in BagToSet(tasks') : x.sid = sid}}]_vars

RECURSIVE ConcatAll(_)
\* The bodies of the messages ms, one after the other.
ConcatAll(ms) == IF ms = << >> THEN EmptyStr ELSE Concat(Head(ms).body, ConcatAll(Tail(ms)))

\* C39: a stream of version 2.2.3 or 2.5.0 that was alone on its channel and
\* ended after inject resolved, with no request failed and none under way,
\* displays what it received: its messages, taken in the order of their
\* creation, hold as many characters as onStream delivered, and the letters of
\* the fragments stand in the order of arrival, each in one piece.
C39_Conservation ==
  \A m \in Msgs :
    (/\ version \in {"v223", "v250"}
     /\ Alone(m) /\ hm[m].pc = "done" /\ hm[m].settled = "resolved"
     /\ fails = 0 /\ tasks = EmptyBag) =>
      LET all == ConcatAll(msgs[m])
          at == {k \in 1..Len(all) : all[k].c \in Lower}
          nth(c) == CHOOSE i \in 1..26 : Alphabet[i] = c
      IN  /\ StrLen(all) = hm[m].recv
          /\ \A j, k \in at : j < k => nth(all[j].c) < nth(all[k].c)

\* C40: in versions 2.2.1 and 2.2.3, once handleMessage m has issued its
\* terminal reaction, the stream it opened (alone on its channel) has no request
\* under way and no timer armed, and no step creates or edits a message of it or
\* issues a request for it.
C40_ReactionComesLast ==
  [][\A m \in Msgs :
       (/\ version \in {"v221", "v223"}
        /\ Alone(m) /\ hm[m].pc = "done"
        /\ \E i \in 1..Len(hm[m].term) : hm[m].term[i] \in {"ok", "fail"}) =>
         /\ msgs'[m] = msgs[m]
         /\ \A t \in BagToSet(tasks') :
              t.sid = m => CopiesOf(t, tasks') <= CopiesOf(t, tasks)]_vars

====
